---------------------------- MODULE Spec2Model ----------------------------
(***************************************************************************)
(* Model of the 1Shot-API wallet SDK: the RPC bridge of OneShotPay (nonce  *)
(* allocation, the pending-callback table, the rpcCallback listener), the  *)
(* value codec used on the response path, and the x402 payment-retry flow. *)
(*                                                                         *)
(* JavaScript values are records [t, v]: t is the type tag, v the content. *)
(* Strings are sequences of one-character strings, so that toLowerCase and *)
(* the network pattern are computed, not assumed.                          *)
(***************************************************************************)
EXTENDS Integers, Sequences, FiniteSets, TLC

(***************************************************************************)
(* Bounds of the model.                                                    *)
(***************************************************************************)
MaxCalls == 2
MaxHandshakes == 2
MaxKeyDisplays == 2

(***************************************************************************)
(* JavaScript values.                                                      *)
(***************************************************************************)
Undefined == [t |-> "undefined", v |-> 0]
Null == [t |-> "null", v |-> 0]
Str(s) == [t |-> "string", v |-> s]
Num(n) == [t |-> "number", v |-> n]
Bool(b) == [t |-> "boolean", v |-> b]
Arr(a) == [t |-> "array", v |-> a]
Obj(f) == [t |-> "object", v |-> f]
EmptyObj == Obj(<<>>)
\* Native (non-JSON) values produced by the codec.
ErrorVal(name, message, stack) ==
    [t |-> "Error", v |-> [name |-> name, message |-> message, stack |-> stack]]
MapVal(entries) == [t |-> "Map", v |-> entries]
SetVal(members) == [t |-> "Set", v |-> members]
BigIntVal(n) == [t |-> "bigint", v |-> n]
\* The stack an engine attaches to an Error constructed locally.
EngineStack == [t |-> "enginestack", v |-> 0]
\* The marker for an evaluation that raised instead of returning.
Thrown(what) == [t |-> "thrown", v |-> what]
IsThrown(x) == x.t = "thrown"

\* Property access value.key: undefined on primitives and on missing keys.
Get(value, key) ==
    IF value.t = "object" /\ key \in DOMAIN value.v THEN value.v[key] ELSE Undefined

\* JavaScript truthiness (the operand of !x, x && y, x || y).
Truthy(x) ==
    CASE x.t = "undefined" -> FALSE
      [] x.t = "null" -> FALSE
      [] x.t = "string" -> Len(x.v) > 0
      [] x.t = "number" -> x.v # 0
      [] x.t = "boolean" -> x.v
      [] OTHER -> TRUE

UpperToLower ==
    [A |-> "a", B |-> "b", C |-> "c", D |-> "d", E |-> "e", F |-> "f",
     G |-> "g", H |-> "h", I |-> "i", J |-> "j", K |-> "k", L |-> "l",
     M |-> "m", N |-> "n", O |-> "o", P |-> "p", Q |-> "q", R |-> "r",
     S |-> "s", T |-> "t", U |-> "u", V |-> "v", W |-> "w", X |-> "x",
     Y |-> "y", Z |-> "z"]

\* String.prototype.toLowerCase on a sequence of characters.
toLowerCase(s) ==
    [i \in DOMAIN s |-> IF s[i] \in DOMAIN UpperToLower THEN UpperToLower[s[i]] ELSE s[i]]

DigitValue ==
    [c \in {"0", "1", "2", "3", "4", "5", "6", "7", "8", "9"} |->
        CASE c = "0" -> 0 [] c = "1" -> 1 [] c = "2" -> 2 [] c = "3" -> 3
          [] c = "4" -> 4 [] c = "5" -> 5 [] c = "6" -> 6 [] c = "7" -> 7
          [] c = "8" -> 8 [] c = "9" -> 9]

IsDigits(s) == Len(s) > 0 /\ \A i \in DOMAIN s : s[i] \in DOMAIN DigitValue

RECURSIVE DecimalValue(_)
\* The number a non-empty sequence of decimal digits denotes.
DecimalValue(s) ==
    IF Len(s) = 0 THEN 0
    ELSE 10 * DecimalValue(SubSeq(s, 1, Len(s) - 1)) + DigitValue[s[Len(s)]]

(***************************************************************************)
(* Texts used by the program.                                              *)
(***************************************************************************)
TxtError == <<"E", "r", "r", "o", "r">>
TxtMap == <<"M", "a", "p">>
TxtSet == <<"S", "e", "t">>
TxtBigInt == <<"B", "i", "g", "I", "n", "t">>
TxtBigint == <<"b", "i", "g", "i", "n", "t">>
TxtUnknownError ==
    <<"U", "n", "k", "n", "o", "w", "n", " ", "e", "r", "r", "o", "r">>
TxtNotInitialized ==
    <<"W", "a", "l", "l", "e", "t", "P", "r", "o", "x", "y", " ", "n", "o", "t", " ",
      "i", "n", "i", "t", "i", "a", "l", "i", "z", "e", "d">>

(***************************************************************************)
(* JSON text.  A text is either malformed or denotes one JSON document;    *)
(* JSON.parse raises on the first and returns the document of the second.  *)
(***************************************************************************)
MalformedText == [wellFormed |-> FALSE, doc |-> Undefined]
TextOf(doc) == [wellFormed |-> TRUE, doc |-> doc]

\* new Error(message) with name and stack assigned as the decoders do.
DecodedError(errorData) ==
    ErrorVal(
        IF Truthy(Get(errorData, "name")) THEN Get(errorData, "name") ELSE Str(TxtError),
        IF Truthy(Get(errorData, "message")) THEN Get(errorData, "message")
        ELSE Str(TxtUnknownError),
        IF Truthy(Get(errorData, "stack")) THEN Get(errorData, "stack") ELSE EngineStack)

\* new Map(iterable): undefined and null give the empty Map, an array must hold
\* entry objects, any other argument here is not iterable and raises.
NewMap(arg) ==
    CASE arg.t \in {"undefined", "null"} -> MapVal(<<>>)
      [] arg.t = "array" ->
            IF \A i \in DOMAIN arg.v : arg.v[i].t = "array"
            THEN MapVal([i \in DOMAIN arg.v |->
                    << IF Len(arg.v[i].v) >= 1 THEN arg.v[i].v[1] ELSE Undefined,
                       IF Len(arg.v[i].v) >= 2 THEN arg.v[i].v[2] ELSE Undefined >>])
            ELSE Thrown("TypeError")
      [] OTHER -> Thrown("TypeError")

\* new Set(iterable).
NewSet(arg) ==
    CASE arg.t \in {"undefined", "null"} -> SetVal(<<>>)
      [] arg.t = "array" -> SetVal(arg.v)
      [] arg.t = "string" -> SetVal([i \in DOMAIN arg.v |-> Str(<<arg.v[i]>>)])
      [] OTHER -> Thrown("TypeError")

\* BigInt(x) for a string of decimal digits, an integral number or a boolean.
NewBigInt(arg) ==
    CASE arg.t = "string" ->
            IF Len(arg.v) = 0 THEN BigIntVal(0)
            ELSE IF IsDigits(arg.v) THEN BigIntVal(DecimalValue(arg.v))
            ELSE IF arg.v[1] = "-" /\ IsDigits(Tail(arg.v))
                 THEN BigIntVal(0 - DecimalValue(Tail(arg.v)))
            ELSE Thrown("SyntaxError")
      [] arg.t = "number" -> BigIntVal(arg.v)
      [] arg.t = "boolean" -> BigIntVal(IF arg.v THEN 1 ELSE 0)
      [] OTHER -> Thrown("TypeError")

\* The reviver of deserializeUnsafe applied to one value whose members have
\* already been revived.
UnsafeReviver(value) ==
    IF value.t = "object"
    THEN LET dataType == Get(value, "dataType")
             inner == Get(value, "value")
         IN  CASE dataType = Str(TxtError) ->
                    IF inner.t \in {"undefined", "null"} THEN Thrown("TypeError")
                    ELSE DecodedError(inner)
               [] dataType = Str(TxtMap) -> NewMap(inner)
               [] dataType = Str(TxtSet) -> NewSet(inner)
               [] dataType = Str(TxtBigInt) -> NewBigInt(inner)
               [] dataType = Str(TxtBigint) -> NewBigInt(inner)
               [] OTHER -> value
    ELSE value

RECURSIVE ReviveUnsafe(_)
\* JSON.parse's bottom-up walk: members first, then the holder.
ReviveUnsafe(doc) ==
    CASE doc.t = "array" ->
            LET members == [i \in DOMAIN doc.v |-> ReviveUnsafe(doc.v[i])]
            IN  IF \E i \in DOMAIN members : IsThrown(members[i])
                THEN Thrown("TypeError")
                ELSE UnsafeReviver(Arr(members))
      [] doc.t = "object" ->
            LET members == [k \in DOMAIN doc.v |-> ReviveUnsafe(doc.v[k])]
            IN  IF \E k \in DOMAIN members : IsThrown(members[k])
                THEN Thrown("TypeError")
                ELSE UnsafeReviver(Obj(members))
      [] OTHER -> UnsafeReviver(doc)

\* ObjectUtils.deserializeUnsafe: the decoded value, or Thrown.
deserializeUnsafe(text) ==
    IF ~text.wellFormed THEN Thrown("SyntaxError") ELSE ReviveUnsafe(text.doc)


(***************************************************************************)
(* ObjectUtils.serialize.  A value handed to serialize may hold objects    *)
(* whose properties are in insertion order (a sequence of <<key, value>>   *)
(* pairs), boxed BigInt objects, and the native values above.  The string  *)
(* serialize returns is modelled by the tree of what is written, objects   *)
(* as their members in written order: two strings are identical exactly    *)
(* when these trees are.                                                   *)
(***************************************************************************)
OrderedObj(pairs) == [t |-> "ordered", v |-> pairs]
\* Object(5n): a BigInt wrapper object, for which `instanceof BigInt` holds.
BoxedBigIntVal(n) == [t |-> "BigIntObject", v |-> n]

DigitChars == <<"0", "1", "2", "3", "4", "5", "6", "7", "8", "9">>

RECURSIVE NatToString(_)
NatToString(n) ==
    IF n < 10 THEN <<DigitChars[n + 1]>>
    ELSE NatToString(n \div 10) \o <<DigitChars[(n % 10) + 1]>>

\* BigInt.prototype.toString(): the decimal digits, with a sign when negative.
BigIntToString(n) == IF n < 0 THEN <<"-">> \o NatToString(0 - n) ELSE NatToString(n)

\* Mutant: the keys of the Map are written instead of its entries.
MapEntriesKeysOnly(map) == Arr([i \in DOMAIN map.v |-> map.v[i][1]])

\* Array.from(value.entries()): one [key, value] array per entry.
MapEntries(map) == Arr([i \in DOMAIN map.v |-> Arr(map.v[i])])

\* The replacer passed to stringify, applied to one value.
Replacer(value) ==
    CASE value.t = "Error" ->
            OrderedObj(<<
                <<"dataType", Str(TxtError)>>,
                <<"value", OrderedObj(<<
                    <<"name", IF Truthy(value.v.name) THEN value.v.name ELSE Str(TxtError)>>,
                    <<"message", IF Truthy(value.v.message) THEN value.v.message
                                 ELSE Str(TxtUnknownError)>>,
                    <<"stack", IF Truthy(value.v.stack) THEN value.v.stack ELSE Undefined>>
                >>)>> >>)
      [] value.t = "Map" ->
            OrderedObj(<< <<"dataType", Str(TxtMap)>>, <<"value", MapEntries(value)>> >>)
      [] value.t = "Set" ->
            OrderedObj(<< <<"dataType", Str(TxtSet)>>, <<"value", Arr(value.v)>> >>)
      [] value.t = "BigIntObject" ->
            OrderedObj(<<
                <<"dataType", Str(TxtBigInt)>>,
                <<"value", Str(BigIntToString(value.v))>> >>)
      [] value.t = "bigint" ->
            OrderedObj(<<
                <<"dataType", Str(TxtBigint)>>,
                <<"value", Str(BigIntToString(value.v))>> >>)
      [] OTHER -> value

\* The order of the property names in use under the default comparison of
\* Array.prototype.sort (UTF-16 code units).
KeyRank ==
    [a |-> 1, b |-> 2, dataType |-> 3, message |-> 4, name |-> 5, stack |-> 6,
     value |-> 7]

RECURSIVE InsertPair(_, _)
InsertPair(sorted, pair) ==
    IF Len(sorted) = 0 THEN <<pair>>
    ELSE IF KeyRank[pair[1]] < KeyRank[Head(sorted)[1]] THEN <<pair>> \o sorted
    ELSE <<Head(sorted)>> \o InsertPair(Tail(sorted), pair)

RECURSIVE SortKeysFrom(_, _)
SortKeysFrom(sorted, pairs) ==
    IF Len(pairs) = 0 THEN sorted
    ELSE SortKeysFrom(InsertPair(sorted, Head(pairs)), Tail(pairs))

\* Mutant: the members are written in insertion order (JSON.stringify).
SortKeysInsertionOrder(pairs) == pairs

\* safe-stable-stringify writes the members of every object sorted by key.
SortKeys(pairs) == SortKeysFrom(<<>>, pairs)

\* Members whose value is undefined are left out of a written object.
WrittenMembers(pairs) == SelectSeq(pairs, LAMBDA pair : pair[2] # Undefined)

RECURSIVE Written(_)
\* stringify(obj, replacer): the replacer is applied to the value, then to every
\* member of what it returned.  Undefined inside an array is written as null.
Written(value) ==
    LET replaced == Replacer(value)
    IN  CASE replaced.t = "ordered" ->
                OrderedObj(WrittenMembers(
                    [i \in DOMAIN SortKeys(replaced.v) |->
                        <<SortKeys(replaced.v)[i][1], Written(SortKeys(replaced.v)[i][2])>>]))
          [] replaced.t = "array" ->
                Arr([i \in DOMAIN replaced.v |->
                        IF Written(replaced.v[i]) = Undefined THEN Null
                        ELSE Written(replaced.v[i])])
          [] OTHER -> replaced

\* ObjectUtils.serialize
serialize(obj) == Written(obj)

RECURSIVE ParseJson(_)
\* JSON.parse of a written string (no reviver): the document it denotes.
ParseJson(written) ==
    CASE written.t = "ordered" ->
            Obj([key \in {written.v[i][1] : i \in DOMAIN written.v} |->
                    ParseJson((CHOOSE pair \in {written.v[i] : i \in DOMAIN written.v} :
                                    pair[1] = key)[2])])
      [] written.t = "array" -> Arr([i \in DOMAIN written.v |-> ParseJson(written.v[i])])
      [] OTHER -> written

(***************************************************************************)
(* ObjectUtils.deserialize.                                                *)
(***************************************************************************)
ReservedTypes == {Str(TxtError), Str(TxtMap), Str(TxtSet), Str(TxtBigInt), Str(TxtBigint)}

RECURSIVE ProcessValue(_)
\* processValue: top-down.  A wrapper (an object with both a dataType and a
\* value member, of a reserved type) is decoded from its raw value member; any
\* other array or object is rebuilt from its processed members.
ProcessValue(value) ==
    IF /\ value.t = "object"
       /\ "dataType" \in DOMAIN value.v /\ "value" \in DOMAIN value.v
       /\ value.v.dataType \in ReservedTypes
    THEN CASE value.v.dataType = Str(TxtError) ->
                IF value.v.value.t \in {"undefined", "null"} THEN Thrown("TypeError")
                ELSE DecodedError(value.v.value)
           [] value.v.dataType = Str(TxtMap) -> NewMap(value.v.value)
           [] value.v.dataType = Str(TxtSet) -> NewSet(value.v.value)
           [] OTHER -> NewBigInt(value.v.value)
    ELSE CASE value.t = "array" ->
                LET members == [i \in DOMAIN value.v |-> ProcessValue(value.v[i])]
                IN  IF \E i \in DOMAIN members : IsThrown(members[i])
                    THEN Thrown("TypeError") ELSE Arr(members)
           [] value.t = "object" ->
                LET members == [k \in DOMAIN value.v |-> ProcessValue(value.v[k])]
                IN  IF \E k \in DOMAIN members : IsThrown(members[k])
                    THEN Thrown("TypeError") ELSE Obj(members)
           [] OTHER -> value

\* ObjectUtils.deserialize: what the caller gets.  JSON.parse(json) is an
\* argument of Promise.resolve, evaluated before ResultAsync.fromPromise is
\* entered: when it throws, deserialize itself raises ("raised").  An exception
\* inside the andThen callback rejects the promise behind the result
\* ("rejected").  No path constructs a ValidationError ("err").
deserialize(text) ==
    IF ~text.wellFormed THEN [kind |-> "raised", value |-> Thrown("SyntaxError")]
    ELSE IF IsThrown(ProcessValue(text.doc))
         THEN [kind |-> "rejected", value |-> ProcessValue(text.doc)]
         ELSE [kind |-> "ok", value |-> ProcessValue(text.doc)]

\* deserializeUnsafe as its caller sees it.
UnsafeOutcome(text) ==
    IF IsThrown(deserializeUnsafe(text))
    THEN [kind |-> "raised", value |-> deserializeUnsafe(text)]
    ELSE [kind |-> "ok", value |-> deserializeUnsafe(text)]

(***************************************************************************)
(* The values and texts ObjectUtils is exercised with.                     *)
(***************************************************************************)
CodecAtoms ==
    { Num(1), Str(<<"x">>), Null, BigIntVal(5), BigIntVal(0 - 12),
      ErrorVal(Str(TxtError), Str(<<"b", "o", "o", "m">>), Str(<<"s">>)),
      ErrorVal(Str(<<"E">>), Str(<<>>), Str(<<"s">>)) }

\* One more level of nesting around the values of a set.
Containers(values) ==
    { Arr(<<x>>) : x \in values } \cup
    { MapVal(<< <<Str(<<"k">>), x>> >>) : x \in values } \cup
    { SetVal(<<x>>) : x \in values } \cup
    { OrderedObj(<< <<"a", x>>, <<"b", Num(1)>> >>) : x \in values } \cup
    { OrderedObj(<< <<"b", Num(1)>>, <<"a", x>> >>) : x \in values }

CodecValues ==
    CodecAtoms \cup Containers(CodecAtoms) \cup Containers(Containers(CodecAtoms))
    \cup { BoxedBigIntVal(5), MapVal(<<>>), SetVal(<<Num(1), Str(<<"x">>)>>),
           OrderedObj(<< <<"b", BigIntVal(5)>>, <<"value", Null>>, <<"a", Str(<<"x">>)>> >>) }

\* Well-formed documents that did not come from serialize.
ForeignDocs ==
    { Obj([dataType |-> Str(TxtError)]), Obj([dataType |-> Str(TxtMap)]),
      Obj([dataType |-> Str(TxtSet)]), Obj([dataType |-> Str(TxtBigint)]),
      Obj([dataType |-> Str(TxtError), value |-> Null]),
      Obj([dataType |-> Str(TxtMap), value |-> Num(1)]),
      Obj([dataType |-> Str(TxtBigInt), value |-> Str(<<"x">>)]),
      Obj([dataType |-> Str(<<"x">>), value |-> Num(1)]),
      Obj([a |-> Obj([dataType |-> Str(TxtBigint), value |-> Str(<<"5">>)])]),
      Num(1), Null, Arr(<<>>), EmptyObj }

CodecTexts == {MalformedText} \cup { TextOf(doc) : doc \in ForeignDocs }

NotDecoded == [kind |-> "none", value |-> Undefined]

CodecIdle ==
    [pc |-> "idle", value |-> Undefined, written |-> Undefined, text |-> MalformedText,
     safe |-> NotDecoded, unsafe |-> NotDecoded]

(***************************************************************************)
(* The RPC bridge.                                                         *)
(***************************************************************************)
VARIABLES
    impl,           \* which class the bridge instance is: OneShotPay or WalletProxy
    handshakes,     \* one entry per initialize() call: pending, complete or failed
    child,          \* this.child: 0 is null, k is the handle of the k-th initialize()
    listeners,      \* the handles on which the rpcCallback listener is registered
    rpcNonce,       \* this.rpcNonce
    rpcCallbacks,   \* this.rpcCallbacks: nonce -> the call whose closure is stored
    calls,          \* every rpcCall made so far, with its caller's result
    sent,           \* the envelopes handed to child.call, in order
    isVisible,      \* this.isVisible
    lastDelivery,   \* the nonce of the last rpcCallback message handled and what
                    \* the listener did with it
    display,        \* this.containerElement, this.displayRestore and the styles of
                    \* the container, its backdrop and the wallet iframes
    keyDisplays,    \* every displayPrivateKey made so far (WalletProxy): its result,
                    \* its handleClose closure and what that closure has run
    x402,           \* one invocation of x402Fetch: where it is and what it did
    codec           \* one use of ObjectUtils: the value, its text, what was decoded

bridgeVars ==
    <<impl, handshakes, child, listeners, rpcNonce, rpcCallbacks, calls, sent,
      isVisible, lastDelivery, display, keyDisplays>>

NullChild == 0
NoNonce == 0 - 1

\* The public methods of OneShotPay, each a thin wrapper around rpcCall.
Methods ==
    {"getStatus", "signIn", "getERC3009Signature", "getPermitSignature", "signOut",
     "getAccountAddress"}

\* The requireInteraction argument each public method passes (default false).
RequireInteraction(method) == method = "getERC3009Signature"

\* isInitialized()
isInitialized == child # NullChild

NotInitializedError ==
    [t |-> "ProxyError", v |-> ErrorVal(Str(TxtError), Str(TxtNotInitialized), EngineStack)]

\* ProxyError.fromError as used by the error mapper of ResultAsync.fromPromise.
ProxyErrorFrom(e) == [t |-> "ProxyError", v |-> e]

\* What serialize or child.call raises when the dispatch fails.
DispatchFailure == ErrorVal(Str(TxtError), Str(<<"d", "i", "s", "p", "a", "t", "c", "h">>), EngineStack)

\* The result payloads the remote context may put in a response.
TxtBoom == <<"b", "o", "o", "m">>
SignedAuthorization ==
    Obj([signature |-> Str(<<"0", "x", "5", "1">>),
         from |-> Str(<<"0", "x", "f">>),
         to |-> Str(<<"0", "x", "a">>),
         value |-> Str(<<"1", "0", "0", "0">>),
         validAfter |-> Num(1),
         validBefore |-> Num(2),
         nonce |-> Str(<<"0", "x", "9">>)])
ResultTexts ==
    { MalformedText,
      TextOf(SignedAuthorization),
      TextOf(Obj([dataType |-> Str(TxtError),
                  value |-> Obj([name |-> Str(TxtError), message |-> Str(TxtBoom)])])),
      TextOf(Obj([dataType |-> Str(TxtError)])) }

\* rpcCallback messages: IRPCWrapperReturn envelopes, for allocated and for
\* never-allocated nonces.
Responses ==
    [success : BOOLEAN, callbackNonce : 0..MaxCalls, result : ResultTexts]

NoDelivery == [callbackNonce |-> NoNonce, outcome |-> "none"]

\* The answer field of a call no response has settled.
NoAnswer == [success |-> FALSE, result |-> MalformedText, given |-> FALSE]
AnswerOf(response) ==
    [success |-> response.success, result |-> response.result, given |-> TRUE]

(***************************************************************************)
(* The presentation of the wallet iframe.  Of the inline styles and class   *)
(* names the code writes, the model keeps those that decide whether the     *)
(* iframe is on screen: the class "hidden" and the display property of the  *)
(* container and of the frame, the frame's width and opacity, and whether   *)
(* the backdrop element is in the container; and two properties that are    *)
(* written but not by every restore: the frame's top and max-width.         *)
(***************************************************************************)
\* The container as the host page provides it: hidden by its class.
InitialContainer == [hidden |-> TRUE, display |-> ""]

\* An iframe as the handshake creates it (classListArray is empty).
InitialFrame ==
    [hidden |-> FALSE, display |-> "", width |-> "", opacity |-> "", top |-> "",
     maxWidth |-> ""]

\* this.displayRestore = null
NoRestore == [kind |-> "null"]

\* { restore: () => {} }
NoopRestore == [kind |-> "noop"]

DisplayInit ==
    [containerElement |-> FALSE,
     displayRestore |-> NoRestore,
     container |-> InitialContainer,
     backdrop |-> FALSE,
     frames |-> [h \in 1..MaxHandshakes |-> InitialFrame]]

\* The styles a prepare function saves for its restore closure: className,
\* display, width and opacity always, top by the two prepareIframeForDisplay,
\* max-width by none (an unsaved property is kept as "" in the closure).
SavedFrame(kind, frame) ==
    [frame EXCEPT !.top = IF kind = "webauthn" THEN "" ELSE @, !.maxWidth = ""]

\* prepareIframeForWebAuthn(): the frame is made technically visible, one
\* pixel wide and transparent; the closure returned keeps the styles read
\* before.
prepareIframeForWebAuthn(d) ==
    IF child = NullChild
    THEN [restore |-> NoopRestore, display |-> d]
    ELSE [restore |-> [kind |-> "webauthn",
                       frame |-> SavedFrame("webauthn", d.frames[child])],
          display |-> [d EXCEPT !.frames[child] =
                          [hidden |-> FALSE, display |-> "block",
                           width |-> "1px", opacity |-> "0", top |-> "0",
                           maxWidth |-> @.maxWidth]]]

\* prepareIframeForDisplay(): container and frame are styled as a modal
\* dialog over a backdrop; the closure returned keeps the styles read before
\* and whether this call created the backdrop.
prepareIframeForDisplay(d) ==
    IF child = NullChild \/ ~d.containerElement
    THEN [restore |-> NoopRestore, display |-> d]
    ELSE [restore |-> [kind |-> "display",
                       frame |-> SavedFrame("display", d.frames[child]),
                       container |-> d.container,
                       backdropCreated |-> ~d.backdrop],
          display |-> [d EXCEPT !.container = [hidden |-> FALSE, display |-> "flex"],
                                !.backdrop = TRUE,
                                !.frames[child] =
                                    [hidden |-> FALSE, display |-> "block",
                                     width |-> "90vw", opacity |-> "1",
                                     top |-> @.top, maxWidth |-> "600px"]]]

\* WalletProxy.prepareIframeForDisplay(): the frame's parent element and the
\* frame are styled as a full-screen overlay; the closure returned keeps the
\* styles read before.
WalletProxy_prepareIframeForDisplay(d) ==
    IF child = NullChild
    THEN [restore |-> NoopRestore, display |-> d]
    ELSE [restore |-> [kind |-> "proxyDisplay",
                       frame |-> SavedFrame("proxyDisplay", d.frames[child]),
                       container |-> d.container],
          display |-> [d EXCEPT !.container = [hidden |-> FALSE, display |-> "block"],
                                !.frames[child] =
                                    [hidden |-> FALSE, display |-> "block",
                                     width |-> "100vw", opacity |-> "1",
                                     top |-> "0", maxWidth |-> @.maxWidth]]]

\* The frame after a restore closure wrote its saved styles: the one of
\* prepareIframeForWebAuthn saves and writes neither top nor max-width, the
\* two of prepareIframeForDisplay write top and not max-width.
RestoredFrame(restore, frame) ==
    [restore.frame EXCEPT
        !.top = IF restore.kind = "webauthn" THEN frame.top ELSE @,
        !.maxWidth = frame.maxWidth]

\* Calling a restore closure: the saved styles are written back to the frame
\* of the child current at that moment (none if this.child is null) and,
\* for the modal one, to the container; a backdrop this closure's prepare
\* created is removed.
RunRestore(restore, d) ==
    CASE restore.kind = "webauthn" ->
            IF child = NullChild THEN d
            ELSE [d EXCEPT !.frames[child] = RestoredFrame(restore, @)]
      [] restore.kind = "display" ->
            [d EXCEPT !.frames = IF child = NullChild THEN @
                                 ELSE [@ EXCEPT ![child] = RestoredFrame(restore, @)],
                      !.container = restore.container,
                      !.backdrop = IF restore.backdropCreated THEN FALSE ELSE @]
      [] restore.kind = "proxyDisplay" ->
            [d EXCEPT !.frames = IF child = NullChild THEN @
                                 ELSE [@ EXCEPT ![child] = RestoredFrame(restore, @)],
                      !.container = restore.container]
      [] OTHER -> d

\* Whether an element with this class and inline display is rendered: an
\* inline display decides, otherwise the class "hidden" does.
Rendered(element) ==
    CASE element.display = "none" -> FALSE
      [] element.display = "" -> ~element.hidden
      [] OTHER -> TRUE

\* The wallet iframe is on screen: there is one, its container and the frame
\* are rendered, and the frame is neither one pixel wide nor transparent.
IframeDisplayed ==
    /\ child # NullChild
    /\ Rendered(display.container)
    /\ Rendered(display.frames[child])
    /\ display.frames[child].width # "1px"
    /\ display.frames[child].opacity # "0"

\* getVisible()
getVisible == isVisible

BridgeInit ==
    /\ handshakes = <<>>
    /\ child = NullChild
    /\ listeners = {}
    /\ rpcNonce = 0
    /\ rpcCallbacks = <<>>
    /\ calls = <<>>
    /\ sent = <<>>
    /\ isVisible = FALSE
    /\ lastDelivery = NoDelivery
    /\ display = DisplayInit
    /\ keyDisplays = <<>>

(***************************************************************************)
(* initialize(): the handshake is started, and completes or fails later.   *)
(***************************************************************************)
Initialize ==
    /\ Len(handshakes) < MaxHandshakes
    /\ handshakes' = Append(handshakes, "pending")
    /\ UNCHANGED <<x402, codec, keyDisplays>>
    /\ UNCHANGED <<impl, child, listeners, rpcNonce, rpcCallbacks, calls, sent,
                   isVisible, lastDelivery, display>>

\* The .map callback after the handshake promise resolves.
HandshakeComplete(h) ==
    /\ handshakes[h] = "pending"
    /\ handshakes' = [handshakes EXCEPT ![h] = "complete"]
    /\ child' = h
    /\ listeners' = listeners \cup {h}
    /\ display' = [display EXCEPT !.containerElement = TRUE]
    /\ UNCHANGED <<x402, codec, keyDisplays>>
    /\ UNCHANGED <<impl, rpcNonce, rpcCallbacks, calls, sent, isVisible, lastDelivery>>

\* Mutant: a rejected handshake still stores its handle and its listener.
HandshakeFailsStoresChild(h) ==
    /\ handshakes[h] = "pending"
    /\ handshakes' = [handshakes EXCEPT ![h] = "failed"]
    /\ child' = h
    /\ listeners' = listeners \cup {h}
    /\ UNCHANGED <<x402, codec, keyDisplays>>
    /\ UNCHANGED <<impl, rpcNonce, rpcCallbacks, calls, sent, isVisible, lastDelivery,
                   display>>

\* What the handshake promise rejects with.
HandshakeRejection ==
    ErrorVal(Str(TxtError), Str(<<"h", "a", "n", "d", "s", "h", "a", "k", "e">>), EngineStack)

\* The result of the h-th initialize(): ResultAsync.fromPromise(handshake,
\* e => ProxyError.fromError(e)).map(...).
InitializeResult(h) ==
    CASE handshakes[h] = "complete" -> [kind |-> "ok", value |-> Undefined]
      [] handshakes[h] = "failed" ->
            [kind |-> "err", value |-> ProxyErrorFrom(HandshakeRejection)]
      [] OTHER -> [kind |-> "pending", value |-> Undefined]

\* The handshake promise rejects: initialize() yields Err(ProxyError).
HandshakeFails(h) ==
    /\ handshakes[h] = "pending"
    /\ handshakes' = [handshakes EXCEPT ![h] = "failed"]
    /\ UNCHANGED <<x402, codec, keyDisplays>>
    /\ UNCHANGED <<impl, child, listeners, rpcNonce, rpcCallbacks, calls, sent,
                   isVisible, lastDelivery, display>>

(***************************************************************************)
(* rpcCall.                                                                *)
(***************************************************************************)
\* Mutant: the counter is read but not advanced.
NonceNotAdvanced(n) == n

\* const callbackNonce = this.rpcNonce++ : the counter after the allocation.
NonceAfterAllocation(n) == n + 1

\* Mutant: the closure is stored under the counter's value after the increment.
SetCallbackAfterIncrement(table, nonce, callId) ==
    [n \in DOMAIN table \cup {nonce + 1} |-> IF n = nonce + 1 THEN callId ELSE table[n]]

\* this.rpcCallbacks.set(callbackNonce, closure)
SetCallback(table, nonce, callId) ==
    [n \in DOMAIN table \cup {nonce} |-> IF n = nonce THEN callId ELSE table[n]]

\* this.rpcCallbacks.delete(nonce)
DeleteCallback(table, nonce) == [n \in DOMAIN table \ {nonce} |-> table[n]]

\* Mutant: restore is chained on the success path only.
RestoreRunsOnSuccessOnly(kind) == kind = "ok"

\* Whether the restore callback runs when the caller's result settles: the
\* .map callback on success, the .mapErr callback on failure (OneShotPay only).
RestoreRunsOn(kind) == kind = "ok" \/ impl = "OneShotPay"

\* Mutant: a later resolve or reject overwrites a settled result.
SettleCallOverwrites(call, kind, value, answer) ==
    [call EXCEPT
        !.state = kind,
        !.value = IF kind = "ok" THEN value ELSE [t |-> "ProxyError", v |-> value],
        !.answer = answer,
        !.restored = @ + 1]

\* Mutant: a call that required interaction resolves without its value.
SettleCallInteractiveDropsValue(call, kind, value, answer) ==
    IF call.state # "pending" THEN call
    ELSE [call EXCEPT
            !.state = kind,
            !.value = IF kind = "ok"
                      THEN (IF call.requireInteraction THEN Undefined ELSE value)
                      ELSE ProxyErrorFrom(value),
            !.answer = answer,
            !.restored = IF RestoreRunsOn(kind) THEN @ + 1 ELSE @]

\* The promise of one rpcCall settles (resolve or reject reached it first); the
\* fromPromise wrapper and the map/mapErr continuations run: the caller's result
\* becomes Ok(value) or Err(ProxyError), restore runs.  A settled promise ignores
\* later resolve and reject calls.
SettleCall(call, kind, value, answer) ==
    IF call.state # "pending" THEN call
    ELSE [call EXCEPT
            !.state = kind,
            !.value = IF kind = "ok" THEN value ELSE ProxyErrorFrom(value),
            !.answer = answer,
            !.restored = IF RestoreRunsOn(kind) THEN @ + 1 ELSE @]

\* this.isVisible after the continuation of a settling call has run.
VisibleAfterSettle(call, kind, visible) ==
    IF call.state = "pending" /\ call.requireInteraction /\ impl = "OneShotPay"
    THEN FALSE
    ELSE visible

\* The styles after the continuation of a settling call has called restore().
DisplayAfterSettle(call, kind, d) ==
    IF call.state = "pending" /\ RestoreRunsOn(kind)
    THEN RunRestore(call.restore, d)
    ELSE d

\* const { restore } = requireInteraction ? this.prepareIframeForDisplay()
\*                                        : this.prepareIframeForWebAuthn();
\* (WalletProxy always takes the second.)
PrepareIframe(requireInteraction, d) ==
    IF requireInteraction /\ impl = "OneShotPay"
    THEN prepareIframeForDisplay(d)
    ELSE prepareIframeForWebAuthn(d)

NewCall(eventName, params, requireInteraction, owner) ==
    [eventName |-> eventName, params |-> params,
     requireInteraction |-> requireInteraction, owner |-> owner,
     nonce |-> NoNonce, state |-> "pending", value |-> Undefined,
     answer |-> NoAnswer, restored |-> 0, restore |-> NoopRestore]

\* Mutant: the initialization check is missing.
ChildIsNullUnchecked(c) == FALSE

\* The guard of rpcCall: this.child == null.
ChildIsNull(c) == c = NullChild

\* rpcCall(eventName, params, requireInteraction); dispatchThrows says whether
\* serialize or child.call raises inside the promise executor.
rpcCall(eventName, params, requireInteraction, owner, dispatchThrows) ==
    LET call == NewCall(eventName, params, requireInteraction, owner)
        callId == Len(calls) + 1
    IN  IF ChildIsNull(child)
        THEN /\ calls' = Append(calls,
                    [call EXCEPT !.state = "err", !.value = NotInitializedError])
             /\ UNCHANGED <<rpcNonce, rpcCallbacks, sent, isVisible, display>>
        ELSE LET callbackNonce == rpcNonce
                 prepared == PrepareIframe(requireInteraction, display)
                 registered == [call EXCEPT !.nonce = callbackNonce,
                                            !.restore = prepared.restore]
                 shown == IF requireInteraction /\ impl = "OneShotPay"
                          THEN TRUE ELSE isVisible
             IN  /\ rpcNonce' = NonceAfterAllocation(rpcNonce)
                 /\ rpcCallbacks' = SetCallback(rpcCallbacks, callbackNonce, callId)
                 /\ IF dispatchThrows
                    THEN /\ calls' = Append(calls,
                                SettleCall(registered, "err", DispatchFailure, NoAnswer))
                         /\ isVisible' = VisibleAfterSettle(registered, "err", shown)
                         /\ display' = DisplayAfterSettle(registered, "err",
                                                          prepared.display)
                         /\ sent' = sent
                    ELSE /\ calls' = Append(calls, registered)
                         /\ isVisible' = shown
                         /\ display' = prepared.display
                         /\ sent' = Append(sent,
                                [eventName |-> eventName,
                                 callbackNonce |-> callbackNonce,
                                 params |-> params, child |-> child])

\* The host invokes one of the public methods.
CallMethod(method, dispatchThrows) ==
    /\ Len(calls) < MaxCalls
    /\ rpcCall(method, Num(Len(calls) + 1), RequireInteraction(method), "host",
               dispatchThrows)
    /\ UNCHANGED <<impl, handshakes, child, listeners, lastDelivery, x402, codec, keyDisplays>>

(***************************************************************************)
(* The rpcCallback listener.                                               *)
(***************************************************************************)
NoCallback == 0

\* Mutant: responses are matched to the oldest pending entry (dispatch order).
GetCallbackOldest(table, nonce) ==
    IF nonce \in DOMAIN table
    THEN table[CHOOSE n \in DOMAIN table : \A m \in DOMAIN table : n <= m]
    ELSE 0

\* Mutant: a response with an unknown nonce is given to some pending entry.
GetCallbackAnyPending(table, nonce) ==
    IF nonce \in DOMAIN table THEN table[nonce]
    ELSE IF DOMAIN table # {} THEN table[CHOOSE n \in DOMAIN table : TRUE]
    ELSE 0

\* this.rpcCallbacks.get(nonce)
GetCallback(table, nonce) == IF nonce \in DOMAIN table THEN table[nonce] ELSE NoCallback

\* Mutant: the closure resolves whatever the success flag says.
CallbackEffectAlwaysResolves(response) ==
    LET decoded == deserializeUnsafe(response.result)
    IN  IF IsThrown(decoded) THEN [kind |-> "threw", value |-> decoded]
        ELSE [kind |-> "ok", value |-> decoded]

\* The closure stored by rpcCall, applied to a response: which of resolve and
\* reject it calls and with what, or that it raises while decoding.
CallbackEffect(response) ==
    LET decoded == deserializeUnsafe(response.result)
    IN  IF IsThrown(decoded) THEN [kind |-> "threw", value |-> decoded]
        ELSE IF ~response.success THEN [kind |-> "err", value |-> decoded]
        ELSE [kind |-> "ok", value |-> decoded]

\* The listener body for one well-formed rpcCallback message.
OnRpcCallback(response) ==
    LET callback == GetCallback(rpcCallbacks, response.callbackNonce)
    IN  IF callback = NoCallback
        THEN /\ lastDelivery' =
                    [callbackNonce |-> response.callbackNonce, outcome |-> "dropped"]
             /\ UNCHANGED <<rpcCallbacks, calls, isVisible, display>>
        ELSE LET effect == CallbackEffect(response)
             IN  /\ rpcCallbacks' = DeleteCallback(rpcCallbacks, response.callbackNonce)
                 /\ lastDelivery' =
                        [callbackNonce |-> response.callbackNonce,
                         outcome |-> IF effect.kind = "threw" THEN "threw" ELSE "called"]
                 /\ IF effect.kind = "threw"
                    THEN UNCHANGED <<calls, isVisible, display>>
                    ELSE /\ calls' = [calls EXCEPT ![callback] =
                                SettleCall(@, effect.kind, effect.value, AnswerOf(response))]
                         /\ isVisible' =
                                VisibleAfterSettle(calls[callback], effect.kind, isVisible)
                         /\ display' =
                                DisplayAfterSettle(calls[callback], effect.kind, display)

\* An rpcCallback message arrives on a handle that has the listener.
HandleRpcCallback(response) ==
    /\ listeners # {}
    /\ OnRpcCallback(response)
    /\ UNCHANGED <<impl, handshakes, child, listeners, rpcNonce, sent>>

\* A response is delivered while no x402Fetch is waiting for the signer.
DeliverRpcCallback(response) ==
    /\ HandleRpcCallback(response)
    /\ UNCHANGED <<x402, codec, keyDisplays>>

\* rpcCallback messages whose text is no response envelope: a text that is
\* not JSON, and the JSON text null.
UndecodableMessages == {MalformedText, TextOf(Null)}

\* What the listener does with such a message: deserialize raises on a text
\* that is not JSON, so the listener raises before it reads anything; on null
\* the callback given to map raises when it reads result.callbackNonce, which
\* rejects the promise behind the result.
UndecodableOutcome(data) ==
    IF deserialize(data).kind # "ok" THEN deserialize(data).kind ELSE "rejected"

\* Mutant: a listener that raised is no longer called.
ListenersAfterRaiseNone(ls) == {}

\* The listeners registered after a listener raised: Postmate keeps them.
ListenersAfterRaise(ls) == ls

\* An rpcCallback message arrives whose text is no response envelope.
DeliverUndecodable(data) ==
    /\ listeners # {}
    /\ lastDelivery' = [callbackNonce |-> NoNonce, outcome |-> UndecodableOutcome(data)]
    /\ listeners' = ListenersAfterRaise(listeners)
    /\ UNCHANGED <<impl, handshakes, child, rpcNonce, rpcCallbacks, calls, sent,
                   isVisible, display, x402, codec, keyDisplays>>

(***************************************************************************)
(* WalletProxy: initialize() and displayPrivateKey().                      *)
(***************************************************************************)
\* The .map callback of WalletProxy.initialize after the handshake resolves:
\* the handle is stored and the rpcCallback listener registered.
ProxyHandshakeComplete(h) ==
    /\ handshakes[h] = "pending"
    /\ handshakes' = [handshakes EXCEPT ![h] = "complete"]
    /\ child' = h
    /\ listeners' = listeners \cup {h}
    /\ UNCHANGED <<impl, rpcNonce, rpcCallbacks, calls, sent, isVisible, lastDelivery,
                   display, x402, codec, keyDisplays>>

\* Mutant: handleClose does not look at hasClosed.
AlreadyClosedNever(keyDisplay) == FALSE

\* if (hasClosed) return;
AlreadyClosed(keyDisplay) == keyDisplay.hasClosed

\* The request displayPrivateKey hands to the channel: an event name, no data.
DisplayPrivateKeyRequest ==
    [eventName |-> "displayPrivateKey", callbackNonce |-> NoNonce,
     params |-> Undefined, child |-> child]

\* displayPrivateKey(onClose); dispatchThrows says whether child.call raises.
\* An entry records the result, the handle handleClose was registered on, the
\* closure's hasClosed and restore, and how often restore and onClose ran.
DisplayPrivateKey(dispatchThrows) ==
    /\ Len(keyDisplays) < MaxKeyDisplays
    /\ IF ChildIsNull(child)
       THEN /\ keyDisplays' = Append(keyDisplays,
                [result |-> [kind |-> "err", value |-> NotInitializedError],
                 child |-> NullChild, hasClosed |-> FALSE, notified |-> FALSE,
                 restore |-> NoopRestore, restored |-> 0, closed |-> 0])
            /\ UNCHANGED <<display, sent>>
       ELSE LET prepared == WalletProxy_prepareIframeForDisplay(display)
            IN  /\ keyDisplays' = Append(keyDisplays,
                    [result |-> IF dispatchThrows
                                THEN [kind |-> "raised", value |-> DispatchFailure]
                                ELSE [kind |-> "ok", value |-> Undefined],
                     child |-> child, hasClosed |-> FALSE, notified |-> FALSE,
                     restore |-> prepared.restore, restored |-> 0, closed |-> 0])
                /\ display' = prepared.display
                /\ sent' = IF dispatchThrows THEN sent
                           ELSE Append(sent, DisplayPrivateKeyRequest)
    /\ UNCHANGED <<impl, handshakes, child, listeners, rpcNonce, rpcCallbacks, calls,
                   isVisible, lastDelivery, x402, codec>>

\* handleClose of the k-th displayPrivateKey is called.
HandleClose(keyDisplay) ==
    IF AlreadyClosed(keyDisplay) THEN [keyDisplay EXCEPT !.notified = TRUE]
    ELSE [keyDisplay EXCEPT !.notified = TRUE, !.hasClosed = TRUE,
                            !.restored = @ + 1, !.closed = @ + 1]

\* The styles after the handlers in ks (in registration order, from k on)
\* have run.
RECURSIVE DisplayAfterClose(_, _, _)
DisplayAfterClose(ks, k, d) ==
    IF k > Len(keyDisplays) THEN d
    ELSE IF k \in ks /\ ~AlreadyClosed(keyDisplays[k])
    THEN DisplayAfterClose(ks, k + 1, RunRestore(keyDisplays[k].restore, d))
    ELSE DisplayAfterClose(ks, k + 1, d)

\* The handlers a PrivateKeyDisplayClosed event on handle c calls: child.on
\* either keeps every handler registered for the event or only the latest.
ClosedHandlers(c, keepsAll) ==
    LET registered == {k \in DOMAIN keyDisplays : keyDisplays[k].child = c}
    IN  IF keepsAll THEN registered
        ELSE {k \in registered : \A j \in registered : j <= k}

\* The wallet emits PrivateKeyDisplayClosed on handle c.
PrivateKeyDisplayClosed(c, keepsAll) ==
    /\ c # NullChild
    /\ ClosedHandlers(c, keepsAll) # {}
    /\ keyDisplays' = [k \in DOMAIN keyDisplays |->
                        IF k \in ClosedHandlers(c, keepsAll)
                        THEN HandleClose(keyDisplays[k]) ELSE keyDisplays[k]]
    /\ display' = DisplayAfterClose(ClosedHandlers(c, keepsAll), 1, display)
    /\ UNCHANGED <<impl, handshakes, child, listeners, rpcNonce, rpcCallbacks, calls,
                   sent, isVisible, lastDelivery, x402, codec>>

(***************************************************************************)
(* show(), hide() and the two listeners that hide the frame.               *)
(***************************************************************************)
\* show(): a restore function kept from an earlier show() is called first.
ShowEffect(d) ==
    LET cleared == IF d.displayRestore.kind # "null"
                   THEN RunRestore(d.displayRestore, d)
                   ELSE d
        prepared == prepareIframeForDisplay(cleared)
    IN  [prepared.display EXCEPT !.displayRestore = prepared.restore]

\* hide(): the restore function of show() if there is one; otherwise, when the
\* frame counts as visible, container and frame are reset directly.
HideEffect(d) ==
    IF d.displayRestore.kind # "null"
    THEN [RunRestore(d.displayRestore, d) EXCEPT !.displayRestore = NoRestore]
    ELSE IF d.containerElement /\ isVisible
    THEN [d EXCEPT !.container = [hidden |-> TRUE, display |-> "none"],
                   !.backdrop = FALSE,
                   !.frames = IF child = NullChild THEN @
                              ELSE [@ EXCEPT ![child] =
                                       [hidden |-> TRUE, display |-> "",
                                        width |-> "", opacity |-> "",
                                        top |-> @.top, maxWidth |-> ""]]]
    ELSE d

\* The host calls show().
Show ==
    /\ display' = ShowEffect(display)
    /\ isVisible' = TRUE
    /\ UNCHANGED <<impl, handshakes, child, listeners, rpcNonce, rpcCallbacks, calls,
                   sent, lastDelivery, x402, codec, keyDisplays>>

\* The host calls hide().
Hide ==
    /\ display' = HideEffect(display)
    /\ isVisible' = FALSE
    /\ UNCHANGED <<impl, handshakes, child, listeners, rpcNonce, rpcCallbacks, calls,
                   sent, lastDelivery, x402, codec, keyDisplays>>

\* The wallet emits closeFrame: the listener calls hide().
CloseFrame ==
    /\ listeners # {}
    /\ Hide

\* The wallet emits registrationRequired: the listener calls hide(), then opens
\* the url in a new window when it is a non-empty string (nothing of this
\* object changes by that).
RegistrationRequired(urlIsString) ==
    /\ listeners # {}
    /\ Hide

(***************************************************************************)
(* x402Fetch: the payment-retry flow.                                      *)
(***************************************************************************)
TxtExact == <<"e", "x", "a", "c", "t">>
TxtEip3009 == <<"e", "i", "p", "3", "0", "0", "9">>
TxtEip155Prefix == <<"e", "i", "p", "1", "5", "5", ":">>
TxtBaseNetwork == <<"e", "i", "p", "1", "5", "5", ":", "8", "4", "5", "3">>
\* Base mainnet USDC, as the source spells it (lower case).
TxtUsdcLower == <<"0", "x", "8", "3", "3", "5", "8", "9", "f", "c", "d", "6", "e", "d", "b", "6", "e", "0", "8", "f", "4", "c", "7", "c", "3", "2", "d", "4", "f", "7", "1", "b", "5", "4", "b", "d", "a", "0", "2", "9", "1", "3">>
\* The same address in its checksummed spelling.
TxtUsdcChecksum == <<"0", "x", "8", "3", "3", "5", "8", "9", "f", "C", "D", "6", "e", "D", "b", "6", "E", "0", "8", "f", "4", "c", "7", "C", "3", "2", "D", "4", "f", "7", "1", "b", "5", "4", "B", "d", "A", "0", "2", "9", "1", "3">>
BaseChainId == 8453
DefaultTimeoutSeconds == 60
PaymentRequiredStatus == 402

AjaxError(reason) == [t |-> "AjaxError", v |-> reason]

\* x402ResolveRequestUrl(input)
x402ResolveRequestUrl(input) == input.url

\* A header text is modelled by its form and the document it carries:
\*   json               JSON.stringify(doc)
\*   paddedJson         the same between white space
\*   quotedJson         the same between double quotes
\*   jsonTrailingQuote  the same followed by one double quote
\*   base64             btoa of JSON.stringify(doc)
\*   quotedBase64       the same between double quotes
\*   base64Garbage      btoa of a text that is not JSON
\*   brokenJson         a text that starts with a brace and is not JSON
\*   garbage            a text that is none of these
\* and the string operations of the parser are defined on these forms.

\* raw.trim()
Trim(raw) == IF raw.form = "paddedJson" THEN [raw EXCEPT !.form = "json"] ELSE raw

\* text.startsWith("{") || text.startsWith("[")
StartsWithBraceOrBracket(text) ==
    \/ text.form = "json" /\ text.doc.t \in {"object", "array"}
    \/ text.form \in {"jsonTrailingQuote", "brokenJson"}

\* x402Base64DecodeUtf8(text): the decoded text; form "raised" stands for the
\* exception atob raises on a character outside the base64 alphabet (or
\* decodeURIComponent on bytes that are no UTF-8 text), which the JSON.parse
\* around the call passes on.
x402Base64DecodeUtf8(text) ==
    CASE text.form = "base64" -> [form |-> "json", doc |-> text.doc]
      [] text.form = "base64Garbage" -> [form |-> "garbage", doc |-> Undefined]
      [] OTHER -> [form |-> "raised", doc |-> Undefined]

\* JSON.parse(text), or the exception its argument raised.
JSONParse(text) ==
    CASE text.form = "json" -> text.doc
      [] text.form = "raised" -> Thrown("InvalidCharacterError")
      [] OTHER -> Thrown("SyntaxError")

\* trimmed.replace(/^"+|"+$/g, "")
StripQuotes(text) ==
    CASE text.form \in {"quotedJson", "jsonTrailingQuote"} -> [text EXCEPT !.form = "json"]
      [] text.form = "quotedBase64" -> [text EXCEPT !.form = "base64"]
      [] OTHER -> text

\* x402ParseJsonOrBase64Json(raw): the parsed document, or Thrown.  A text that
\* starts with a brace or bracket is parsed as JSON and nothing else is tried.
x402ParseJsonOrBase64Json(raw) ==
    LET trimmed == Trim(raw)
    IN  IF StartsWithBraceOrBracket(trimmed) THEN JSONParse(trimmed)
        ELSE LET fromBase64 == JSONParse(x402Base64DecodeUtf8(trimmed))
             IN  IF ~IsThrown(fromBase64) THEN fromBase64
                 ELSE LET unquoted == StripQuotes(trimmed)
                      IN  IF StartsWithBraceOrBracket(unquoted)
                          THEN JSONParse(unquoted)
                          ELSE JSONParse(x402Base64DecodeUtf8(unquoted))

\* candidates.filter(Boolean)
RECURSIVE FilterTruthy(_)
FilterTruthy(seq) ==
    IF Len(seq) = 0 THEN <<>>
    ELSE IF Truthy(Head(seq)) THEN <<Head(seq)>> \o FilterTruthy(Tail(seq))
    ELSE FilterTruthy(Tail(seq))

\* x402NormalizeAcceptedPayments(req): the candidate entries, or Thrown when
\* req is null (a property of null is read).
x402NormalizeAcceptedPayments(req) ==
    IF req.t \in {"null", "undefined"} THEN Thrown("TypeError")
    ELSE LET accepted == Get(req, "accepted")
             requirements == Get(req, "paymentRequirements")
             fromAccepted ==
                CASE accepted.t \in {"undefined", "null"} -> <<>>
                  [] accepted.t = "array" -> accepted.v
                  [] OTHER -> <<accepted>>
             fromRequirements ==
                IF requirements.t = "array" THEN requirements.v ELSE <<>>
         IN  Arr(FilterTruthy(fromAccepted \o fromRequirements))

\* (p.scheme ?? "").toLowerCase() === "exact": TRUE, FALSE, or Thrown when the
\* scheme is neither a string nor nullish.
SchemeIsExact(p) ==
    LET scheme == Get(p, "scheme")
    IN  CASE scheme.t \in {"undefined", "null"} -> Bool(FALSE)
          [] scheme.t = "string" -> Bool(toLowerCase(scheme.v) = TxtExact)
          [] OTHER -> Thrown("TypeError")

RECURSIVE FindExact(_)
\* accepted.find(...): the first exact entry, Undefined when there is none,
\* Thrown when the test raises on an entry before one is found.
FindExact(candidates) ==
    IF Len(candidates) = 0 THEN Undefined
    ELSE LET test == SchemeIsExact(Head(candidates))
         IN  IF IsThrown(test) THEN test
             ELSE IF test.v THEN Head(candidates)
             ELSE FindExact(Tail(candidates))

\* x402GetChainIdFromNetwork: /^eip155:(\d+)$/ and Number(); null is Null.
\* A network that is not a string is coerced to a text the pattern rejects.
x402GetChainIdFromNetwork(network) ==
    IF network.t # "string" THEN Null
    ELSE LET n == Len(TxtEip155Prefix)
         IN  IF /\ Len(network.v) > n
                /\ SubSeq(network.v, 1, n) = TxtEip155Prefix
                /\ IsDigits(SubSeq(network.v, n + 1, Len(network.v)))
             THEN Num(DecimalValue(SubSeq(network.v, n + 1, Len(network.v))))
             ELSE Null

\* Mutant: USDC is accepted on every chain.
x402IsUsdcOnBaseAnyChain(chainId, asset) ==
    IF asset.t # "string" THEN Thrown("TypeError")
    ELSE Bool(toLowerCase(asset.v) = TxtUsdcLower)

\* x402IsUsdcOnBase(chainId, asset): Thrown when asset has no toLowerCase.
x402IsUsdcOnBase(chainId, asset) ==
    IF asset.t # "string" THEN Thrown("TypeError")
    ELSE Bool(chainId.v = BaseChainId /\ toLowerCase(asset.v) = TxtUsdcLower)

\* extra["assetTransferMethod"] ?? extra["asset_transfer_method"]
TransferMethod(extra) ==
    LET camel == Get(extra, "assetTransferMethod")
    IN  IF camel.t \in {"undefined", "null"} THEN Get(extra, "asset_transfer_method")
        ELSE camel

\* method && method.toLowerCase() !== "eip3009": whether the method is refused,
\* Thrown when a truthy method has no toLowerCase.
MethodRefused(method) ==
    IF ~Truthy(method) THEN Bool(FALSE)
    ELSE IF method.t # "string" THEN Thrown("TypeError")
    ELSE Bool(toLowerCase(method.v) # TxtEip3009)

\* exact.extra ?? {}
ExtraOf(exact) ==
    IF Get(exact, "extra").t \in {"undefined", "null"} THEN EmptyObj ELSE Get(exact, "extra")

\* typeof exact.maxTimeoutSeconds === "number" ? exact.maxTimeoutSeconds : 60
MaxTimeoutSeconds(exact) ==
    IF Get(exact, "maxTimeoutSeconds").t = "number"
    THEN Get(exact, "maxTimeoutSeconds").v
    ELSE DefaultTimeoutSeconds

\* Mutant: every status but 200 is taken for a payment challenge.
IsPaymentRequiredNot200(status) == status # 200

\* initialResponse.status !== 402 is the negation of this.
IsPaymentRequired(status) == status = PaymentRequiredStatus

\* Mutant: the header is handed to the parser without the presence check.
HeaderMissingNever(header) == FALSE

\* !paymentRequiredHeader: headers.get returned null, or the empty string.
HeaderMissing(header) == header.form \in {"absent", "empty"}

\* Mutant: the clock reading is rounded up to the next second.
NowSecondsRoundedUp(nowMs) == (nowMs + 999) \div 1000

\* Math.floor(Date.now() / 1000)
NowSeconds(nowMs) == nowMs \div 1000

\* The andThen callback on the first response, up to the call of the signer:
\* the step at which the flow stops and why, or the signature request.
Challenge(response, input, nowMs) ==
    IF ~IsPaymentRequired(response.status)
    THEN [step |-> "passthrough", parses |-> 0]
    ELSE IF HeaderMissing(response.header)
    THEN [step |-> "missing-header", parses |-> 0]
    ELSE
    LET parsed == x402ParseJsonOrBase64Json(response.header) IN
    IF IsThrown(parsed) THEN [step |-> "parse-failed", parses |-> 1] ELSE
    LET accepted == x402NormalizeAcceptedPayments(parsed) IN
    IF IsThrown(accepted) THEN [step |-> "threw", parses |-> 1] ELSE
    LET exact == FindExact(accepted.v) IN
    IF IsThrown(exact) THEN [step |-> "threw", parses |-> 1] ELSE
    IF ~Truthy(exact) THEN [step |-> "no-exact-scheme", parses |-> 1] ELSE
    LET network == Get(exact, "network")
        amount == Get(exact, "amount")
        asset == Get(exact, "asset")
        payTo == Get(exact, "payTo")
    IN
    IF ~Truthy(network) \/ ~Truthy(amount) \/ ~Truthy(asset) \/ ~Truthy(payTo)
    THEN [step |-> "missing-field", parses |-> 1] ELSE
    LET chainId == x402GetChainIdFromNetwork(network) IN
    IF chainId = Null THEN [step |-> "unsupported-network", parses |-> 1] ELSE
    LET usdc == x402IsUsdcOnBase(chainId, asset) IN
    IF IsThrown(usdc) THEN [step |-> "threw", parses |-> 1] ELSE
    IF ~usdc.v THEN [step |-> "unsupported-asset", parses |-> 1] ELSE
    LET refused == MethodRefused(TransferMethod(ExtraOf(exact))) IN
    IF IsThrown(refused) THEN [step |-> "threw", parses |-> 1] ELSE
    IF refused.v THEN [step |-> "unsupported-method", parses |-> 1] ELSE
    LET nowSeconds == NowSeconds(nowMs) IN
    [step |-> "sign", parses |-> 1,
     params |-> Obj([recipient |-> Str(x402ResolveRequestUrl(input)),
                     destinationAddress |-> payTo,
                     amount |-> amount,
                     validUntil |-> Num(nowSeconds + MaxTimeoutSeconds(exact)),
                     validAfter |-> Num(nowSeconds)])]

\* JSON.stringify of an object literal drops the members that are undefined.
DropUndefined(members) ==
    Obj([k \in {k \in DOMAIN members : members[k] # Undefined} |-> members[k]])

\* Mutant: the payload always names the request's URL as the resource.
PaymentPayloadRequestUrl(req, exact, input, signed) ==
    LET extra == ExtraOf(exact)
    IN  DropUndefined(
         [x402Version |->
            IF Get(req, "x402Version").t = "number" THEN Get(req, "x402Version")
            ELSE Num(2),
          resource |-> Obj([url |-> Str(x402ResolveRequestUrl(input))]),
          accepted |-> DropUndefined(
            [scheme |-> Str(TxtExact),
             network |-> Get(exact, "network"),
             amount |-> Get(exact, "amount"),
             asset |-> Get(exact, "asset"),
             payTo |-> Get(exact, "payTo"),
             maxTimeoutSeconds |-> Num(MaxTimeoutSeconds(exact)),
             extra |-> IF extra.t = "object" /\ DOMAIN extra.v = {}
                       THEN Undefined ELSE extra]),
          payload |-> DropUndefined(
            [signature |-> Get(signed, "signature"),
             authorization |-> DropUndefined(
                [from |-> Get(signed, "from"),
                 to |-> Get(signed, "to"),
                 value |-> Get(signed, "value"),
                 validAfter |-> Get(signed, "validAfter"),
                 validBefore |-> Get(signed, "validBefore"),
                 nonce |-> Get(signed, "nonce")])])])

\* The paymentPayload object as JSON.stringify writes it.  req and exact are
\* the parsed challenge and its selected entry, signed is the signer's result.
PaymentPayload(req, exact, input, signed) ==
    LET resource == Get(req, "resource")
        extra == ExtraOf(exact)
    IN  DropUndefined(
         [x402Version |->
            IF Get(req, "x402Version").t = "number" THEN Get(req, "x402Version")
            ELSE Num(2),
          resource |-> DropUndefined(
            [url |-> IF Get(resource, "url").t \in {"undefined", "null"}
                     THEN Str(x402ResolveRequestUrl(input)) ELSE Get(resource, "url"),
             description |-> IF Truthy(Get(resource, "description"))
                             THEN Get(resource, "description") ELSE Undefined,
             mimeType |-> IF Truthy(Get(resource, "mimeType"))
                          THEN Get(resource, "mimeType") ELSE Undefined]),
          accepted |-> DropUndefined(
            [scheme |-> Str(TxtExact),
             network |-> Get(exact, "network"),
             amount |-> Get(exact, "amount"),
             asset |-> Get(exact, "asset"),
             payTo |-> Get(exact, "payTo"),
             maxTimeoutSeconds |-> Num(MaxTimeoutSeconds(exact)),
             extra |-> IF extra.t = "object" /\ DOMAIN extra.v = {}
                       THEN Undefined ELSE extra]),
          payload |-> DropUndefined(
            [signature |-> Get(signed, "signature"),
             authorization |-> DropUndefined(
                [from |-> Get(signed, "from"),
                 to |-> Get(signed, "to"),
                 value |-> Get(signed, "value"),
                 validAfter |-> Get(signed, "validAfter"),
                 validBefore |-> Get(signed, "validBefore"),
                 nonce |-> Get(signed, "nonce")])])])

\* x402Base64EncodeUtf8(JSON.stringify(payload)): a header text.
ProofHeader(payload) == [form |-> "base64", doc |-> payload]

NoHeader == [form |-> "absent", doc |-> Undefined]
NoResponse == [status |-> 0, header |-> NoHeader]
NoOutcome == [kind |-> "none", value |-> Undefined]
NoInput == [form |-> "none", url |-> <<>>, headers |-> <<>>]
\* init is undefined, or has no headers member.
NoInit == [headers |-> Undefined]

X402Idle ==
    [pc |-> "idle", input |-> NoInput, init |-> NoInit, nowMs |-> 0, first |-> NoResponse,
     second |-> NoResponse, fetches |-> <<>>, parses |-> 0, signerCalls |-> 0, signCall |-> 0,
     step |-> "none", outcome |-> NoOutcome]

(***************************************************************************)
(* The inputs of x402Fetch: requests, clock readings, responses.           *)
(***************************************************************************)
TxtUrl == <<"h", "t", "t", "p", "s", ":", "/", "/", "a", "p", "i", ".", "e", "x", "a", "m", "p", "l", "e", "/", "x">>
\* A header value the caller wrote.
TextHeader(text) == [form |-> "text", doc |-> Str(text)]

\* x402Fetch("https://api.example/x")
PlainInput == [form |-> "string", url |-> TxtUrl, headers |-> <<>>]
\* x402Fetch(new Request("https://api.example/x", {headers: {Authorization: "t"}}))
RequestWithHeaders ==
    [form |-> "request", url |-> TxtUrl,
     headers |-> << << <<"A", "u", "t", "h", "o", "r", "i", "z", "a", "t", "i", "o", "n">>, TextHeader(<<"t">>)>> >>]
RequestInputs == {PlainInput, RequestWithHeaders}

\* init.headers as the caller wrote them: name/value pairs, names in any case.
RequestInits ==
    { NoInit,
      [headers |-> Arr(<< << <<"X", "-", "A", "p", "i", "-", "K", "e", "y">>, TextHeader(<<"k">>)>> >>)],
      [headers |-> Arr(<< << <<"X", "-", "A", "p", "i", "-", "K", "e", "y">>, TextHeader(<<"k">>)>>,
                          << <<"P", "a", "y", "m", "e", "n", "t", "-", "S", "i", "g", "n", "a", "t", "u", "r", "e">>, TextHeader(<<"o">>)>> >>)] }
ClockReadings == {5999, 7000}

\* An object literal with the members that are given (not Undefined).
Given(members) == DropUndefined(members)

SchemeValues ==
    {Undefined, Str(TxtExact), Str(<<"E", "x", "a", "c", "t">>), Str(<<"u", "p", "t", "o">>), Num(1)}
NetworkValues ==
    {Undefined, Str(TxtBaseNetwork), Str(<<"e", "i", "p", "1", "5", "5", ":", "1">>), Str(TxtEip155Prefix),
     Str(<<"E", "I", "P", "1", "5", "5", ":", "8", "4", "5", "3">>)}
AmountValues == {Undefined, Str(<<"1", "0", "0", "0">>), Str(<<>>)}
AssetValues ==
    {Undefined, Str(TxtUsdcChecksum), Str(TxtUsdcLower), Str(<<"0", "x", "d", "e", "a", "d">>), Num(5)}
PayToValues == {Undefined, Str(<<"0", "x", "A", "b", "c">>)}
CamelMethodValues ==
    {Undefined, Str(TxtEip3009), Str(<<"E", "I", "P", "3", "0", "0", "9">>), Str(<<"p", "e", "r", "m", "i", "t", "2">>), Str(<<>>), Num(3009)}
SnakeMethodValues == {Undefined, Str(TxtEip3009), Str(<<"p", "e", "r", "m", "i", "t", "2">>)}
ExtraValues ==
    {Undefined} \cup
    { Given([assetTransferMethod |-> camel, asset_transfer_method |-> snake]) :
        camel \in CamelMethodValues, snake \in SnakeMethodValues }
TimeoutValues == {Undefined, Num(30)}

\* The accepted-payment entries a challenge may carry.
Entries ==
    { Given([scheme |-> scheme, network |-> network, amount |-> amount,
             asset |-> asset, payTo |-> payTo, extra |-> extra,
             maxTimeoutSeconds |-> timeout]) :
        scheme \in SchemeValues, network \in NetworkValues, amount \in AmountValues,
        asset \in AssetValues, payTo \in PayToValues, extra \in ExtraValues,
        timeout \in TimeoutValues }

\* The entry of the spec's example challenge.
ExampleEntry ==
    Given([scheme |-> Str(TxtExact), network |-> Str(TxtBaseNetwork),
           amount |-> Str(<<"1", "0", "0", "0">>), asset |-> Str(TxtUsdcChecksum),
           payTo |-> Str(<<"0", "x", "A", "b", "c">>)])

\* An exact entry the flow refuses (USDC's address on another chain), and one
\* it accepts that differs from the example in amount and recipient.
RefusedEntry ==
    Given([scheme |-> Str(TxtExact), network |-> Str(<<"e", "i", "p", "1", "5", "5", ":", "1">>),
           amount |-> Str(<<"7">>), asset |-> Str(TxtUsdcLower),
           payTo |-> Str(<<"0", "x", "B">>)])
OtherEntry ==
    Given([scheme |-> Str(<<"E", "X", "A", "C", "T">>), network |-> Str(TxtBaseNetwork),
           amount |-> Str(<<"9">>), asset |-> Str(TxtUsdcLower),
           payTo |-> Str(<<"0", "x", "C">>)])

\* Challenge documents with several candidates, in the accepted field, in
\* paymentRequirements, or in both.
SeveralCandidates ==
    { Obj([accepted |-> Arr(<<RefusedEntry, ExampleEntry>>)]),
      Obj([accepted |-> Arr(<<OtherEntry, ExampleEntry>>)]),
      Obj([accepted |-> OtherEntry, paymentRequirements |-> Arr(<<ExampleEntry>>)]),
      Obj([accepted |-> RefusedEntry, paymentRequirements |-> Arr(<<ExampleEntry>>)]),
      Obj([accepted |-> Arr(<<Given([scheme |-> Str(<<"u", "p", "t", "o">>)]), Null>>),
           paymentRequirements |-> Arr(<<Null, OtherEntry, ExampleEntry>>)]),
      Obj([accepted |-> Arr(<<Given([scheme |-> Str(<<"u", "p", "t", "o">>)])>>),
           paymentRequirements |-> Arr(<<Given([network |-> Str(TxtBaseNetwork)])>>)]),
      Obj([accepted |-> Arr(<<Given([scheme |-> Num(1)]), ExampleEntry>>)]),
      Obj([paymentRequirements |-> ExampleEntry]) }

\* The example entry with a maxTimeoutSeconds of each kind JSON can carry.
TimeoutChallenges ==
    { Obj([accepted |-> Arr(<<[ExampleEntry EXCEPT !.v =
                [k \in DOMAIN ExampleEntry.v \cup {"maxTimeoutSeconds"} |->
                    IF k = "maxTimeoutSeconds" THEN timeout ELSE ExampleEntry.v[k]]]>>)]) :
        timeout \in {Num(0), Num(0 - 30), Str(<<"3", "0">>), Null} }

\* The example entry with an extra that names the token's signing domain.
EntryWithDomain ==
    [ExampleEntry EXCEPT !.v =
        [k \in DOMAIN ExampleEntry.v \cup {"extra", "maxTimeoutSeconds"} |->
            CASE k = "extra" -> Obj([name |-> Str(<<"U", "S", "D", "C">>), assetTransferMethod |-> Str(<<"E", "I", "P", "3", "0", "0", "9">>)])
              [] k = "maxTimeoutSeconds" -> Num(30)
              [] OTHER -> ExampleEntry.v[k]]]

\* Challenges that carry a version and a resource description.
DescribedChallenges ==
    { Obj([x402Version |-> Num(1),
           resource |-> Obj([url |-> Str(<<"h", "t", "t", "p", "s", ":", "/", "/", "r">>), description |-> Str(<<"d">>)]),
           accepted |-> Arr(<<EntryWithDomain>>)]),
      Obj([x402Version |-> Str(<<"1">>),
           resource |-> Obj([mimeType |-> Str(<<"m">>), description |-> Str(<<>>)]),
           accepted |-> Arr(<<ExampleEntry>>)]),
      Obj([resource |-> Null, accepted |-> Arr(<<ExampleEntry>>)]) }

\* Challenge documents: one entry in an accepted array, and a few other shapes.
ChallengeDocs ==
    { Obj([accepted |-> Arr(<<entry>>)]) : entry \in Entries } \cup
    SeveralCandidates \cup TimeoutChallenges \cup DescribedChallenges \cup
    { Null, EmptyObj, Num(7),
      Obj([accepted |-> ExampleEntry]),
      Obj([paymentRequirements |-> Arr(<<ExampleEntry>>)]),
      Obj([accepted |-> Arr(<<Null, Given([scheme |-> Str(<<"u", "p", "t", "o">>)]), ExampleEntry>>)]) }

ChallengeHeaders ==
    { [form |-> "json", doc |-> doc] : doc \in ChallengeDocs } \cup
    { [form |-> form, doc |-> doc] :
        form \in {"base64", "quotedJson", "quotedBase64", "paddedJson"},
        doc \in {Obj([accepted |-> Arr(<<ExampleEntry>>)]), Null} } \cup
    { [form |-> "jsonTrailingQuote", doc |-> Obj([accepted |-> Arr(<<ExampleEntry>>)])] } \cup
    { [form |-> form, doc |-> Undefined] :
        form \in {"absent", "empty", "garbage", "brokenJson", "base64Garbage"} }

FirstResponses ==
    { [status |-> PaymentRequiredStatus, header |-> header] : header \in ChallengeHeaders }
    \cup
    { [status |-> status, header |-> header] :
        status \in {200, 500},
        header \in {NoHeader, [form |-> "json",
                               doc |-> Obj([accepted |-> Arr(<<ExampleEntry>>)])]} }

SecondResponses ==
    { [status |-> status, header |-> NoHeader] : status \in {200, PaymentRequiredStatus} }

\* The first responses explored for a request: every one for the plain
\* request, the example challenge and a plain 200 for requests with headers.
FirstResponsesFor(input, init) ==
    IF input = PlainInput /\ init = NoInit THEN FirstResponses
    ELSE { [status |-> PaymentRequiredStatus,
            header |-> [form |-> "json", doc |-> Obj([accepted |-> Arr(<<ExampleEntry>>)])]],
           [status |-> 200, header |-> NoHeader] }

(***************************************************************************)
(* The steps of x402Fetch.                                                 *)
(***************************************************************************)
\* Headers.prototype.set(name, value): names are case-insensitive and kept in
\* lower case; an existing value is replaced.
HeadersSet(headers, name, value) ==
    [n \in DOMAIN headers \cup {toLowerCase(name)} |->
        IF n = toLowerCase(name) THEN value ELSE headers[n]]

RECURSIVE HeadersFill(_, _)
HeadersFill(headers, pairs) ==
    IF Len(pairs) = 0 THEN headers
    ELSE HeadersFill(HeadersSet(headers, Head(pairs)[1], Head(pairs)[2]), Tail(pairs))

\* new Headers(init): empty for undefined, else filled from the pairs (the
\* names of the pairs in use are distinct, so appending is setting).
NewHeaders(pairs) == HeadersFill(<<>>, pairs)

TxtPaymentSignature == <<"P", "A", "Y", "M", "E", "N", "T", "-", "S", "I", "G", "N", "A", "T", "U", "R", "E">>

\* The headers of nextInit: the caller's init.headers, then the override.
NextInitHeaders(init, headersOverride) ==
    LET headers == IF init.headers = Undefined THEN NewHeaders(<<>>)
                   ELSE NewHeaders(init.headers.v)
    IN  IF headersOverride = NoHeader THEN headers
        ELSE HeadersSet(headers, TxtPaymentSignature, headersOverride)

\* fetch(input, init): a headers member of init replaces the headers input
\* carries (Fetch standard, Request constructor); without it input's are sent.
FetchHeaders(input, nextInit) ==
    IF nextInit.headersGiven THEN nextInit.headers ELSE NewHeaders(input.headers)

\* doFetch(headersOverride): one more HTTP request.  nextInit.headers is always
\* set, to a Headers object.
DoFetch(x, headersOverride) ==
    Append(x.fetches,
           [proof |-> headersOverride,
            headers |-> FetchHeaders(x.input,
                            [headersGiven |-> TRUE,
                             headers |-> NextInitHeaders(x.init, headersOverride)])])

\* x402Fetch(input, init): the first fetch is issued.
X402Start(input, init) ==
    /\ x402.pc = "idle"
    /\ x402' = [x402 EXCEPT !.pc = "fetch1", !.input = input,
                            !.init = init,
                            !.fetches = DoFetch([x402 EXCEPT !.input = input,
                                                             !.init = init], NoHeader)]
    /\ UNCHANGED <<bridgeVars, codec>>

\* fetch rejects: the result is Err(AjaxError).
X402FetchFails ==
    /\ x402.pc \in {"fetch1", "fetch2"}
    /\ x402' = [x402 EXCEPT !.pc = "done",
                    !.outcome = [kind |-> "err", value |-> AjaxError("fetch-failed")]]
    /\ UNCHANGED <<bridgeVars, codec>>

\* Mutant: a signer failure is reported as an AjaxError of x402Fetch.
AfterSignerWrapsError(x, call) ==
    IF call.state = "err"
    THEN [x EXCEPT !.pc = "done",
                   !.outcome = [kind |-> "err", value |-> AjaxError("signing-failed")]]
    ELSE LET req == x402ParseJsonOrBase64Json(x.first.header)
             exact == FindExact(x402NormalizeAcceptedPayments(req).v)
         IN  [x EXCEPT !.pc = "fetch2",
                       !.fetches = DoFetch(x,
                            ProofHeader(PaymentPayload(req, exact, x.input, call.value)))]

\* The result of x402Fetch once the signer's call has settled: the error
\* unchanged, or the replay of the request with the proof header.
AfterSigner(x, call) ==
    IF call.state = "err"
    THEN [x EXCEPT !.pc = "done", !.outcome = [kind |-> "err", value |-> call.value]]
    ELSE LET req == x402ParseJsonOrBase64Json(x.first.header)
             exact == FindExact(x402NormalizeAcceptedPayments(req).v)
         IN  [x EXCEPT !.pc = "fetch2",
                       !.fetches = DoFetch(x,
                            ProofHeader(PaymentPayload(req, exact, x.input, call.value)))]

\* The andThen callback on the first response, run to its end.  The clock is
\* read only once the challenge has passed validation.
OnFirstResponse(response, nowMs, dispatchThrows) ==
    /\ LET c == Challenge(response, x402.input, nowMs)
           seen == [x402 EXCEPT !.first = response,
                                !.nowMs = IF c.step = "sign" THEN nowMs ELSE @,
                                !.parses = c.parses, !.step = c.step]
       IN  CASE c.step = "passthrough" ->
                    /\ x402' = [seen EXCEPT !.pc = "done",
                                    !.outcome = [kind |-> "ok", value |-> response]]
                    /\ UNCHANGED <<rpcNonce, rpcCallbacks, calls, sent, isVisible,
                                   display>>
             [] c.step = "threw" ->
                    /\ x402' = [seen EXCEPT !.pc = "done",
                                    !.outcome = [kind |-> "threw", value |-> Undefined]]
                    /\ UNCHANGED <<rpcNonce, rpcCallbacks, calls, sent, isVisible,
                                   display>>
             [] c.step = "sign" ->
                    /\ rpcCall("getERC3009Signature", c.params,
                               RequireInteraction("getERC3009Signature"), "x402",
                               dispatchThrows)
                    /\ LET signing == [seen EXCEPT !.pc = "signing",
                                            !.signerCalls = @ + 1,
                                            !.signCall = Len(calls')]
                       IN  x402' = IF calls'[Len(calls')].state = "pending"
                                   THEN signing
                                   ELSE AfterSigner(signing, calls'[Len(calls')])
             [] OTHER ->
                    /\ x402' = [seen EXCEPT !.pc = "done",
                                    !.outcome = [kind |-> "err", value |-> AjaxError(c.step)]]
                    /\ UNCHANGED <<rpcNonce, rpcCallbacks, calls, sent, isVisible,
                                   display>>
    /\ UNCHANGED <<impl, handshakes, child, listeners, lastDelivery, codec, keyDisplays>>

\* The first response arrives.
X402FirstResponse ==
    /\ x402.pc = "fetch1"
    /\ \E response \in FirstResponsesFor(x402.input, x402.init) :
          IF Challenge(response, x402.input, 0).step = "sign"
          THEN \E nowMs \in ClockReadings, dispatchThrows \in BOOLEAN :
                  OnFirstResponse(response, nowMs, dispatchThrows)
          ELSE OnFirstResponse(response, 0, FALSE)

\* A response is delivered while x402Fetch waits for the signer: when it
\* settles the signer's call, the flow continues in the same turn.
X402DeliverRpcCallback(response) ==
    /\ x402.pc = "signing"
    /\ HandleRpcCallback(response)
    /\ x402' = IF calls'[x402.signCall].state # "pending"
               THEN AfterSigner(x402, calls'[x402.signCall])
               ELSE x402
    /\ UNCHANGED <<codec, keyDisplays>>

\* Mutant: a second 402 is answered by fetching once more.
OnSecondResponseRetries(x, response) ==
    IF response.status = 402
    THEN [x EXCEPT !.pc = "fetch2", !.fetches = Append(@, x.fetches[1])]
    ELSE [x EXCEPT !.pc = "done", !.outcome = [kind |-> "ok", value |-> response]]

\* The response to the replayed request is the result, whatever its status.
OnSecondResponse(x, response) ==
    [x EXCEPT !.pc = "done", !.outcome = [kind |-> "ok", value |-> response]]

X402SecondResponse(response) ==
    /\ x402.pc = "fetch2"
    /\ x402' = [OnSecondResponse(x402, response) EXCEPT !.second = response]
    /\ UNCHANGED <<bridgeVars, codec>>

(***************************************************************************)
(* Uses of ObjectUtils.                                                    *)
(***************************************************************************)
\* serialize(obj) is called; its string is what the decoders are given next.
CodecSerialize(obj) ==
    /\ codec.pc = "idle"
    /\ codec' = [codec EXCEPT !.pc = "text", !.value = obj,
                              !.written = serialize(obj),
                              !.text = TextOf(ParseJson(serialize(obj)))]
    /\ UNCHANGED <<bridgeVars, x402>>

\* A text from elsewhere is about to be decoded.
CodecReceive(text) ==
    /\ codec.pc = "idle"
    /\ codec' = [codec EXCEPT !.pc = "text", !.text = text]
    /\ UNCHANGED <<bridgeVars, x402>>

\* deserialize(json) is called on the text.
CodecDeserialize ==
    /\ codec.pc = "text"
    /\ codec.safe = NotDecoded
    /\ codec' = [codec EXCEPT !.safe = deserialize(codec.text)]
    /\ UNCHANGED <<bridgeVars, x402>>

\* deserializeUnsafe(json) is called on the text.
CodecDeserializeUnsafe ==
    /\ codec.pc = "text"
    /\ codec.unsafe = NotDecoded
    /\ codec' = [codec EXCEPT !.unsafe = UnsafeOutcome(codec.text)]
    /\ UNCHANGED <<bridgeVars, x402>>

(***************************************************************************)
(* Specifications.                                                         *)
(***************************************************************************)
vars == <<bridgeVars, x402, codec>>

\* The methods the host calls in the bridge's specification: the one that
\* requires interaction and two that do not (the others differ from these in
\* the event name only).
CalledMethods == {"getStatus", "getERC3009Signature", "signOut"}

\* The bridge of a OneShotPay instance under calls of its public methods.
Init ==
    /\ impl = "OneShotPay"
    /\ BridgeInit
    /\ x402 = X402Idle
    /\ codec = CodecIdle

Next ==
    \/ Initialize
    \/ \E h \in DOMAIN handshakes : HandshakeComplete(h)
    \/ \E h \in DOMAIN handshakes : HandshakeFails(h)
    \/ \E m \in CalledMethods, dispatchThrows \in BOOLEAN : CallMethod(m, dispatchThrows)
    \/ \E response \in Responses : DeliverRpcCallback(response)

Spec == Init /\ [][Next]_vars

\* The wallet answers the request that carries nonce n: a response for a nonce
\* the pending table holds is delivered.
DeliverMatching(n) ==
    \E response \in Responses :
        /\ response.callbackNonce = n
        /\ n \in DOMAIN rpcCallbacks
        /\ DeliverRpcCallback(response)

\* The bridge under fair delivery: the response to a request that stays
\* unanswered is eventually delivered.
SpecFair ==
    Init /\ [][Next]_vars /\ \A n \in 0..MaxCalls : WF_vars(DeliverMatching(n))

\* One x402Fetch on a OneShotPay instance, before or after its handshake.
InitX402 ==
    /\ impl = "OneShotPay"
    /\ x402 = X402Idle
    /\ codec = CodecIdle
    /\ rpcNonce = 0
    /\ rpcCallbacks = <<>>
    /\ calls = <<>>
    /\ sent = <<>>
    /\ isVisible = FALSE
    /\ lastDelivery = NoDelivery
    /\ keyDisplays = <<>>
    /\ \/ handshakes = <<>> /\ child = NullChild /\ listeners = {}
          /\ display = DisplayInit
       \/ handshakes = <<"complete">> /\ child = 1 /\ listeners = {1}
          /\ display = [DisplayInit EXCEPT !.containerElement = TRUE]

NextX402 ==
    \/ \E input \in RequestInputs, init \in RequestInits : X402Start(input, init)
    \/ X402FetchFails
    \/ X402FirstResponse
    \/ \E response \in Responses : X402DeliverRpcCallback(response)
    \/ \E response \in SecondResponses : X402SecondResponse(response)

SpecX402 == InitX402 /\ [][NextX402]_vars

\* The presentation of a OneShotPay instance, before or after its handshake:
\* show() and hide() by the host, closeFrame and registrationRequired from the
\* wallet, around calls that need interaction and calls that do not.
InitDisplay == InitX402

DisplayMethods == {"getStatus", "getERC3009Signature"}

NextDisplay ==
    \/ Show
    \/ Hide
    \/ CloseFrame
    \/ \E urlIsString \in BOOLEAN : RegistrationRequired(urlIsString)
    \/ \E m \in DisplayMethods, dispatchThrows \in BOOLEAN : CallMethod(m, dispatchThrows)
    \/ \E response \in Responses : DeliverRpcCallback(response)

SpecDisplay == InitDisplay /\ [][NextDisplay]_vars

\* rpcCall invoked with either value of requireInteraction (the method is
\* protected: the public methods pass a fixed value each, a subclass any).
RpcCallWith(eventName, requireInteraction, dispatchThrows) ==
    /\ Len(calls) < MaxCalls
    /\ rpcCall(eventName, Num(Len(calls) + 1), requireInteraction, "host", dispatchThrows)
    /\ UNCHANGED <<impl, handshakes, child, listeners, lastDelivery, x402, codec, keyDisplays>>

\* rpcCall under both values of its requireInteraction argument, and the
\* responses to its requests.
InitInteraction == InitX402

NextInteraction ==
    \/ \E m \in DisplayMethods, requireInteraction \in BOOLEAN, dispatchThrows \in BOOLEAN :
            RpcCallWith(m, requireInteraction, dispatchThrows)
    \/ \E response \in Responses : DeliverRpcCallback(response)

SpecInteraction == InitInteraction /\ [][NextInteraction]_vars

\* The rpcCallback listener under messages of every kind: responses to
\* pending calls, responses with unknown nonces, and texts that are no
\* response envelope.
NextListener ==
    \/ Initialize
    \/ \E h \in DOMAIN handshakes : HandshakeComplete(h)
    \/ \E m \in DisplayMethods, dispatchThrows \in BOOLEAN : CallMethod(m, dispatchThrows)
    \/ \E response \in Responses : DeliverRpcCallback(response)
    \/ \E data \in UndecodableMessages : DeliverUndecodable(data)

SpecListener == Init /\ [][NextListener]_vars

\* A WalletProxy instance under calls of its public methods.
ProxyMethods == {"getStatus", "signOut"}

InitProxy ==
    /\ impl = "WalletProxy"
    /\ BridgeInit
    /\ x402 = X402Idle
    /\ codec = CodecIdle

NextProxy ==
    \/ Initialize
    \/ \E h \in DOMAIN handshakes : ProxyHandshakeComplete(h)
    \/ \E h \in DOMAIN handshakes : HandshakeFails(h)
    \/ \E m \in ProxyMethods, dispatchThrows \in BOOLEAN : CallMethod(m, dispatchThrows)
    \/ \E response \in Responses : DeliverRpcCallback(response)

SpecProxy == InitProxy /\ [][NextProxy]_vars

\* displayPrivateKey on a WalletProxy instance, and the events that close the
\* display.
NextKeyDisplay ==
    \/ Initialize
    \/ \E h \in DOMAIN handshakes : ProxyHandshakeComplete(h)
    \/ \E h \in DOMAIN handshakes : HandshakeFails(h)
    \/ \E dispatchThrows \in BOOLEAN : DisplayPrivateKey(dispatchThrows)
    \/ \E c \in DOMAIN handshakes, keepsAll \in BOOLEAN : PrivateKeyDisplayClosed(c, keepsAll)

SpecKeyDisplay == InitProxy /\ [][NextKeyDisplay]_vars

\* ObjectUtils on its own: one value encoded and decoded, or one text decoded.
InitCodec ==
    /\ impl = "OneShotPay"
    /\ BridgeInit
    /\ x402 = X402Idle
    /\ codec = CodecIdle

NextCodec ==
    \/ \E obj \in CodecValues : CodecSerialize(obj)
    \/ \E text \in CodecTexts : CodecReceive(text)
    \/ CodecDeserialize
    \/ CodecDeserializeUnsafe

SpecCodec == InitCodec /\ [][NextCodec]_vars

(***************************************************************************)
(* Properties of the bridge.                                               *)
(***************************************************************************)
\* The calls that passed the initialization check, in call order.
Allocated == SelectSeq(calls, LAMBDA c : c.nonce # NoNonce)

\* Call a is outstanding: dispatched or registered, unsettled, its closure in the table.
Outstanding(a) ==
    /\ calls[a].state = "pending"
    /\ GetCallback(rpcCallbacks, calls[a].nonce) = a

\* C1: responses may arrive in any order.  A step changes an outstanding call
\* or removes its entry only if it handles a response carrying that call's
\* nonce; the calls with other nonces keep their state and their entries, and a
\* call settled by a response is settled by one that carries its own nonce.
C1_OutOfOrderCorrelation ==
    [][\A a \in DOMAIN calls :
        Outstanding(a) =>
            \/ /\ calls'[a] = calls[a]
               /\ GetCallback(rpcCallbacks', calls[a].nonce) = a
            \/ /\ lastDelivery'.callbackNonce = calls[a].nonce
               /\ calls[a].nonce \notin DOMAIN rpcCallbacks'
               /\ lastDelivery'.outcome = "called" =>
                    (calls'[a].state # "pending" /\ calls'[a].answer.given)]_vars

\* C1 witness: two calls dispatched, the second answered first, the first still
\* outstanding with its entry intact.
C1_Witness ==
    /\ Len(calls) = 2
    /\ Len(sent) = 2
    /\ calls[2].state = "ok"
    /\ calls[2].answer.given
    /\ Outstanding(1)
    /\ DOMAIN rpcCallbacks = {0}

\* C2: the k-th call that passes the initialization check is given nonce k-1,
\* no two calls share a nonce, the counter equals the number of allocations,
\* and every entry of the pending table belongs to the one call that was given
\* its nonce.
C2_NoncesSequentialNeverReused ==
    /\ \A i \in DOMAIN Allocated : Allocated[i].nonce = i - 1
    /\ rpcNonce = Len(Allocated)
    /\ \A i, j \in DOMAIN calls :
        (i # j /\ calls[i].nonce # NoNonce) => calls[i].nonce # calls[j].nonce
    /\ \A n \in DOMAIN rpcCallbacks :
        /\ rpcCallbacks[n] \in DOMAIN calls
        /\ calls[rpcCallbacks[n]].nonce = n

\* C2 witness: two allocations around a second initialize(), the first call a
\* failed dispatch, the second answered.
C2_Witness ==
    /\ handshakes = <<"complete", "complete">>
    /\ Len(calls) = 2
    /\ calls[1].nonce = 0 /\ calls[1].state = "err" /\ ~calls[1].answer.given
    /\ calls[2].nonce = 1 /\ calls[2].state = "ok"
    /\ Len(sent) = 1 /\ sent[1].child = 2

\* C3: a public method invoked while this.child is null yields Err(ProxyError)
\* and dispatches nothing, allocates no nonce and adds no pending entry.
C3_NotInitializedTouchesNothing ==
    [][(child = NullChild /\ Len(calls') = Len(calls) + 1) =>
        /\ calls'[Len(calls')].state = "err"
        /\ calls'[Len(calls')].value = NotInitializedError
        /\ calls'[Len(calls')].nonce = NoNonce
        /\ sent' = sent
        /\ rpcNonce' = rpcNonce
        /\ rpcCallbacks' = rpcCallbacks]_vars

\* C3 witness: one call made before initialize() and one made after a failed
\* handshake while another handshake is pending, both refused.
C3_Witness ==
    /\ handshakes = <<"failed", "pending">>
    /\ Len(calls) = 2
    /\ \A c \in DOMAIN calls : calls[c].value = NotInitializedError
    /\ calls[2].eventName = "getERC3009Signature"
    /\ sent = <<>>
    /\ rpcNonce = 0

\* C4: handling a response whose nonce has no pending entry raises nothing,
\* settles no caller and leaves the pending table and the counter unchanged.
C4_UnknownNonceDropped ==
    [][\A response \in Responses :
        (/\ response.callbackNonce \notin DOMAIN rpcCallbacks
         /\ lastDelivery'.callbackNonce = response.callbackNonce
         /\ DeliverRpcCallback(response)) =>
                /\ lastDelivery'.outcome = "dropped"
                /\ UNCHANGED <<rpcCallbacks, calls, rpcNonce, sent, isVisible>>]_vars

\* C4 witness: a response for a never-allocated nonce was dropped while two
\* calls are outstanding.
C4_Witness ==
    /\ lastDelivery = [callbackNonce |-> 2, outcome |-> "dropped"]
    /\ Len(calls) = 2
    /\ Outstanding(1) /\ Outstanding(2)

\* C5: an entry appears only with the call that is given its nonce, and every
\* dispatched envelope has its entry; an entry disappears only in a step that
\* handles a response carrying its nonce, and a removed nonce never returns to
\* the table; a settled caller's result never changes again.
C5_EntryLifecycle ==
    [][/\ \A n \in DOMAIN rpcCallbacks' \ DOMAIN rpcCallbacks :
            /\ Len(calls') = Len(calls) + 1
            /\ calls'[Len(calls')].nonce = n
            /\ n = rpcNonce
       /\ Len(sent') > Len(sent) =>
            sent'[Len(sent')].callbackNonce \in DOMAIN rpcCallbacks'
       /\ \A n \in DOMAIN rpcCallbacks \ DOMAIN rpcCallbacks' :
            lastDelivery'.callbackNonce = n
       /\ \A n \in 0..(rpcNonce - 1) :
            n \notin DOMAIN rpcCallbacks => n \notin DOMAIN rpcCallbacks'
       /\ \A c \in DOMAIN calls :
            calls[c].state # "pending" => calls'[c] = calls[c]]_vars

\* C5 witness: the first call was answered, the same response was delivered
\* again and dropped, the second call's entry is still there.
C5_Witness ==
    /\ Len(calls) = 2
    /\ calls[1].state = "err" /\ calls[1].answer.given
    /\ lastDelivery = [callbackNonce |-> 0, outcome |-> "dropped"]
    /\ Outstanding(2)

\* C6: a decodable response that matches an outstanding call settles it: with
\* success true the result is Ok(decoded payload), with success false it is
\* Err(ProxyError(decoded payload)), never Ok.
C6_ResponsePolarity ==
    [][\A response \in Responses :
        LET c == GetCallback(rpcCallbacks, response.callbackNonce)
            decoded == deserializeUnsafe(response.result)
        IN  (/\ c # NoCallback
             /\ calls[c].state = "pending"
             /\ lastDelivery'.callbackNonce = response.callbackNonce
             /\ ~IsThrown(decoded)
             /\ DeliverRpcCallback(response)) =>
                IF response.success
                THEN calls'[c].state = "ok" /\ calls'[c].value = decoded
                ELSE calls'[c].state = "err"
                     /\ calls'[c].value = ProxyErrorFrom(decoded)]_vars

\* C6 witness: one call failed with the Error rebuilt from a success:false
\* response, another succeeded with the decoded payload.
C6_Witness ==
    /\ Len(calls) = 2
    /\ calls[1].state = "err" /\ calls[1].answer.given
    /\ calls[1].value.v.t = "Error" /\ calls[1].value.v.v.message = Str(TxtBoom)
    /\ calls[2].state = "ok" /\ calls[2].value = SignedAuthorization

\* C7: for a call that passed the initialization check, restore has run
\* exactly once if the call has settled, with success or with failure, and
\* not at all while it is pending.
C7_RestoreExactlyOnceAfterSettle ==
    \A c \in DOMAIN calls :
        calls[c].nonce # NoNonce =>
            calls[c].restored = IF calls[c].state = "pending" THEN 0 ELSE 1

\* C7 witness: one call settled with success, one with failure, one restore each.
C7_Witness ==
    /\ Len(calls) = 2
    /\ calls[1].state = "ok" /\ calls[1].restored = 1
    /\ calls[2].state = "err" /\ calls[2].answer.given /\ calls[2].restored = 1

(***************************************************************************)
(* Properties of x402Fetch.                                                *)
(***************************************************************************)
\* Signer calls made on behalf of x402Fetch.
SignerCalls == SelectSeq(calls, LAMBDA c : c.owner = "x402")

\* C8: x402Fetch issues at most two HTTP fetches and at most one signer call on
\* every path, and the response to the replayed request is the final Ok result
\* whatever its status (a second 402 included): nothing is signed or fetched
\* after it.
C8_AtMostTwoFetchesOneSignature ==
    /\ Len(x402.fetches) <= 2
    /\ x402.signerCalls <= 1
    /\ Len(SignerCalls) = x402.signerCalls
    /\ \A c \in DOMAIN SignerCalls : SignerCalls[c].eventName = "getERC3009Signature"
    /\ x402.second # NoResponse =>
        /\ x402.pc = "done"
        /\ x402.outcome = [kind |-> "ok", value |-> x402.second]
        /\ Len(x402.fetches) = 2
        /\ x402.signerCalls = 1

\* C8 witness: the replay was answered 402 again and that response is the result.
C8_Witness ==
    /\ x402.second.status = 402
    /\ x402.pc = "done"
    /\ x402.outcome.kind = "ok" /\ x402.outcome.value.status = 402
    /\ Len(x402.fetches) = 2 /\ x402.fetches[2].proof.form = "base64"
    /\ x402.signerCalls = 1

\* C9: when the first response's status is not 402, that same response is the
\* Ok result: no second fetch, no header parsing, no call to the signer.
C9_NonPaymentResponsePassesThrough ==
    (x402.first # NoResponse /\ x402.first.status # 402) =>
        /\ x402.pc = "done"
        /\ x402.outcome = [kind |-> "ok", value |-> x402.first]
        /\ Len(x402.fetches) = 1
        /\ x402.parses = 0
        /\ x402.signerCalls = 0
        /\ calls = <<>> /\ sent = <<>> /\ rpcNonce = 0

\* C9 witness: a 500 response carrying a well-formed challenge header was
\* handed back untouched.
C9_Witness ==
    /\ x402.first.status = 500
    /\ x402.first.header.form = "json"
    /\ x402.outcome = [kind |-> "ok", value |-> x402.first]

\* The entry x402Fetch selects from the first response's challenge, when the
\* header parses and has one.
C10_HasSelected ==
    /\ x402.first.status = 402
    /\ x402.first.header.form \in
            {"json", "paddedJson", "base64", "quotedJson", "quotedBase64"}
    /\ ~IsThrown(x402ParseJsonOrBase64Json(x402.first.header))
    /\ ~IsThrown(x402NormalizeAcceptedPayments(x402ParseJsonOrBase64Json(x402.first.header)))
    /\ LET found == FindExact(x402NormalizeAcceptedPayments(
                        x402ParseJsonOrBase64Json(x402.first.header)).v)
       IN  ~IsThrown(found) /\ found.t = "object"

C10_Selected ==
    FindExact(x402NormalizeAcceptedPayments(
        x402ParseJsonOrBase64Json(x402.first.header)).v)

\* The four required fields are present and the transfer method is absent or
\* "eip3009" ignoring case.
C10_FieldsAndMethodValid(entry) ==
    /\ Get(entry, "scheme").t = "string"
    /\ toLowerCase(Get(entry, "scheme").v) = <<"e", "x", "a", "c", "t">>
    /\ \A field \in {"network", "amount", "asset", "payTo"} : Truthy(Get(entry, field))
    /\ LET method == TransferMethod(ExtraOf(entry))
       IN  \/ ~Truthy(method)
           \/ /\ method.t = "string"
              /\ toLowerCase(method.v) = <<"e", "i", "p", "3", "0", "0", "9">>

\* The network is eip155:<digits> and names the chain.
C10_NetworkNames(entry, chain) ==
    /\ Get(entry, "network").t = "string"
    /\ \E k \in 1..Len(Get(entry, "network").v) :
        /\ SubSeq(Get(entry, "network").v, 1, k) = <<"e", "i", "p", "1", "5", "5", ":">>
        /\ k < Len(Get(entry, "network").v)
        /\ IsDigits(SubSeq(Get(entry, "network").v, k + 1, Len(Get(entry, "network").v)))
        /\ DecimalValue(SubSeq(Get(entry, "network").v, k + 1,
                               Len(Get(entry, "network").v))) = chain

C10_AssetIsUsdc(entry) ==
    /\ Get(entry, "asset").t = "string"
    /\ toLowerCase(Get(entry, "asset").v) = toLowerCase(TxtUsdcChecksum)

C10_EntryValid(entry) ==
    /\ C10_FieldsAndMethodValid(entry)
    /\ C10_NetworkNames(entry, 8453)
    /\ C10_AssetIsUsdc(entry)

C11_MissingHeaderFails ==
    (x402.first.status = 402 /\ x402.first.header.form = "absent") =>
        /\ x402.pc = "done"
        /\ x402.outcome = [kind |-> "err", value |-> AjaxError("missing-header")]
        /\ x402.signerCalls = 0 /\ calls = <<>> /\ sent = <<>>
        /\ Len(x402.fetches) = 1

\* C11 witness: a 402 without the header was answered on an initialised bridge.
C11_Witness ==
    /\ x402.first.status = 402 /\ x402.first.header.form = "absent"
    /\ child # NullChild
    /\ x402.pc = "done" /\ x402.outcome.value.t = "AjaxError"

\* The first response is the example challenge: status 402, one accepted entry
\* with scheme "exact", network "eip155:8453", the USDC address in some letter
\* case, amount and payTo present, and neither maxTimeoutSeconds nor extra.
C12_ExampleChallenge ==
    /\ x402.first.status = 402
    /\ x402.first.header.form \in {"json", "base64", "quotedJson", "quotedBase64"}
    /\ x402.first.header.doc.t = "object"
    /\ DOMAIN x402.first.header.doc.v = {"accepted"}
    /\ x402.first.header.doc.v.accepted.t = "array"
    /\ Len(x402.first.header.doc.v.accepted.v) = 1
    /\ LET entry == x402.first.header.doc.v.accepted.v[1]
       IN  /\ entry.t = "object"
           /\ DOMAIN entry.v = {"scheme", "network", "amount", "asset", "payTo"}
           /\ entry.v.scheme = Str(<<"e", "x", "a", "c", "t">>)
           /\ entry.v.network = Str(<<"e", "i", "p", "1", "5", "5", ":", "8", "4", "5", "3">>)
           /\ entry.v.asset.t = "string"
           /\ toLowerCase(entry.v.asset.v) = toLowerCase(TxtUsdcChecksum)
           /\ Truthy(entry.v.amount) /\ Truthy(entry.v.payTo)

\* C12: for the example challenge x402Fetch selects the entry, derives chain id
\* 8453, requests exactly one signature with validAfter = now and validUntil =
\* now + 60 (now in whole seconds), and, once the signature is there, issues
\* exactly one second fetch whose PAYMENT-SIGNATURE header base64-decodes to a
\* JSON payload with accepted.scheme equal to "exact".
C12_ExampleChallengeIsPaid ==
    C12_ExampleChallenge =>
        LET entry == x402.first.header.doc.v.accepted.v[1]
            now == x402.nowMs \div 1000
        IN  /\ x402.step = "sign"
            /\ x402GetChainIdFromNetwork(entry.v.network) = Num(8453)
            /\ x402.signerCalls = 1 /\ Len(SignerCalls) = 1
            /\ calls[x402.signCall].eventName = "getERC3009Signature"
            /\ Get(calls[x402.signCall].params, "validAfter") = Num(now)
            /\ Get(calls[x402.signCall].params, "validUntil") = Num(now + 60)
            /\ Get(calls[x402.signCall].params, "amount") = entry.v.amount
            /\ Get(calls[x402.signCall].params, "destinationAddress") = entry.v.payTo
            /\ Len(x402.fetches) <= 2
            /\ calls[x402.signCall].state = "ok" =>
                /\ Len(x402.fetches) = 2
                /\ x402.fetches[2].proof.form = "base64"
                /\ Get(Get(x402ParseJsonOrBase64Json(x402.fetches[2].proof), "accepted"),
                       "scheme") = Str(<<"e", "x", "a", "c", "t">>)

\* C12 witness: the example challenge with the checksummed address, read at
\* 5.999 s, was signed (validAfter 5, validUntil 65) and replayed.
C12_Witness ==
    /\ C12_ExampleChallenge
    /\ x402.first.header.doc.v.accepted.v[1].v.asset = Str(TxtUsdcChecksum)
    /\ x402.nowMs = 5999
    /\ calls[x402.signCall].state = "ok"
    /\ Get(calls[x402.signCall].params, "validAfter") = Num(5)
    /\ Get(calls[x402.signCall].params, "validUntil") = Num(65)
    /\ Len(x402.fetches) = 2
    /\ x402.pc = "done" /\ x402.outcome.kind = "ok"

(***************************************************************************)
(* Properties of ObjectUtils.                                              *)
(***************************************************************************)
RECURSIVE DeepForm(_)
\* A value up to deep equality: the insertion order of object properties is
\* forgotten; Map entries, Set members, bigint values and Error fields stay.
DeepForm(value) ==
    CASE value.t = "ordered" ->
            Obj([key \in {value.v[i][1] : i \in DOMAIN value.v} |->
                    DeepForm((CHOOSE pair \in {value.v[i] : i \in DOMAIN value.v} :
                                    pair[1] = key)[2])])
      [] value.t = "array" -> Arr([i \in DOMAIN value.v |-> DeepForm(value.v[i])])
      [] value.t = "Map" ->
            MapVal([i \in DOMAIN value.v |->
                        <<DeepForm(value.v[i][1]), DeepForm(value.v[i][2])>>])
      [] value.t = "Set" -> SetVal([i \in DOMAIN value.v |-> DeepForm(value.v[i])])
      [] OTHER -> value

\* C13: for every value v built from Error, Map, Set, bigint and plain JSON
\* values, nested combinations included, deserialize(serialize(v)) yields a value
\* deep-equal to v.  (The code does not satisfy this: wrappers nested inside a
\* Map or a Set are not decoded, and an empty Error message is replaced.)
C13_RoundTrip ==
    (/\ codec.value # Undefined
     /\ codec.value.t # "BigIntObject"
     /\ codec.safe # NotDecoded) =>
        codec.safe = [kind |-> "ok", value |-> DeepForm(codec.value)]

\* C14: deserializeUnsafe and deserialize perform the same decoding: for every
\* well-formed JSON document (nested wrappers and objects with a reserved
\* dataType but no value member included) both return equal values, or both
\* fail; they differ only in how the failure is reported.  (The code does not
\* satisfy this.)
C14_SameDecoding ==
    (/\ codec.text.wellFormed
     /\ codec.safe # NotDecoded
     /\ codec.unsafe # NotDecoded) =>
        \/ /\ codec.safe.kind = "ok" /\ codec.unsafe.kind = "ok"
           /\ codec.safe.value = codec.unsafe.value
        \/ /\ codec.safe.kind # "ok" /\ codec.unsafe.kind # "ok"

\* C15: deserialize applied to text that is not well-formed JSON returns a
\* failed result carrying a ValidationError that wraps the parse exception; it
\* does not raise to its caller.  (The code raises.)
C15_MalformedGivesValidationError ==
    (/\ codec.pc = "text"
     /\ ~codec.text.wellFormed
     /\ codec.safe # NotDecoded) =>
        /\ codec.safe.kind = "err"
        /\ codec.safe.value.t = "ValidationError"

RECURSIVE Reorderings(_)
\* The ways of choosing, for every member of a sequence, one of its reorderings.
MemberReorderings(members) ==
    { f \in [DOMAIN members -> UNION {Reorderings(members[i]) : i \in DOMAIN members}] :
        \A i \in DOMAIN members : f[i] \in Reorderings(members[i]) }

IndexPermutations(n) == { p \in [1..n -> 1..n] : \A i, j \in 1..n : i # j => p[i] # p[j] }

\* The values that hold the same key/value pairs as a value, with the
\* properties of its objects inserted in another order, at every depth.
Reorderings(value) ==
    CASE value.t = "ordered" ->
            { OrderedObj([i \in DOMAIN value.v |-> <<value.v[p[i]][1], f[p[i]]>>]) :
                p \in IndexPermutations(Len(value.v)),
                f \in MemberReorderings([i \in DOMAIN value.v |-> value.v[i][2]]) }
      [] value.t = "array" -> { Arr(f) : f \in MemberReorderings(value.v) }
      [] value.t = "Set" -> { SetVal(f) : f \in MemberReorderings(value.v) }
      [] value.t = "Map" ->
            { MapVal([i \in DOMAIN value.v |-> <<value.v[i][1], f[i]>>]) :
                f \in MemberReorderings([i \in DOMAIN value.v |-> value.v[i][2]]) }
      [] OTHER -> {value}

\* C16: serialize is deterministic with respect to property insertion order:
\* two objects with the same key/value pairs, inserted in any order and at any
\* nesting depth, serialize to the identical string.
C16_InsertionOrderIrrelevant ==
    codec.value # Undefined =>
        \A other \in Reorderings(codec.value) : serialize(other) = codec.written

\* C16 witness: an object whose properties were inserted as b, value, a, holding
\* a bigint, has been serialized with its members written as a, b, value.
C16_Witness ==
    /\ codec.value.t = "ordered"
    /\ [i \in DOMAIN codec.value.v |-> codec.value.v[i][1]] = <<"b", "value", "a">>
    /\ codec.written.t = "ordered"
    /\ [i \in DOMAIN codec.written.v |-> codec.written.v[i][1]] = <<"a", "b", "value">>
    /\ \E other \in Reorderings(codec.value) : other # codec.value

\* What the string of serialize denotes, for a member of a value.
C17_Doc(value) == ParseJson(serialize(value))

\* The plain-JSON writing of a value that is none of Error, Map, Set, bigint.
C17_PlainDoc(value) ==
    CASE value.t = "array" -> Arr([i \in DOMAIN value.v |-> C17_Doc(value.v[i])])
      [] value.t = "ordered" ->
            Obj([key \in {value.v[i][1] : i \in DOMAIN value.v} |->
                    C17_Doc((CHOOSE pair \in {value.v[i] : i \in DOMAIN value.v} :
                                    pair[1] = key)[2])])
      [] OTHER -> value

C17_ErrorDoc(name, message, stack) ==
    Obj([dataType |-> Str(TxtError),
         value |-> Obj([name |-> name, message |-> message, stack |-> stack])])

C17_MapDoc(value) ==
    Obj([dataType |-> Str(TxtMap),
         value |-> Arr([i \in DOMAIN value.v |->
                        Arr(<<C17_Doc(value.v[i][1]), C17_Doc(value.v[i][2])>>)])])

C17_SetDoc(value) ==
    Obj([dataType |-> Str(TxtSet),
         value |-> Arr([i \in DOMAIN value.v |-> C17_Doc(value.v[i])])])

\* A wrapper with the given tag whose value is the decimal string of n.
C17_IsBigIntDoc(doc, tag, n) ==
    /\ doc.t = "object" /\ DOMAIN doc.v = {"dataType", "value"}
    /\ doc.v.dataType = Str(tag)
    /\ doc.v.value.t = "string"
    /\ NewBigInt(doc.v.value) = BigIntVal(n)

C18_TypedResultOnEveryChallenge ==
    (x402.first.status = 402 /\ x402.pc = "done") =>
        \/ x402.outcome.kind = "ok"
        \/ /\ x402.outcome.kind = "err"
           /\ x402.outcome.value.t \in {"AjaxError", "ProxyError"}

\* C19: when the signer call fails during x402Fetch (remote error, failed
\* dispatch, or the bridge is not initialized), x402Fetch fails with that same
\* error unchanged and performs no second fetch: exactly one fetch was made.
C19_SignerFailurePropagates ==
    (x402.signerCalls = 1 /\ calls[x402.signCall].state = "err") =>
        /\ x402.pc = "done"
        /\ x402.outcome = [kind |-> "err", value |-> calls[x402.signCall].value]
        /\ x402.outcome.value.t = "ProxyError"
        /\ Len(x402.fetches) = 1
        /\ x402.second = NoResponse
        /\ (child = NullChild => x402.outcome.value = NotInitializedError)

\* C19 witness: the wallet answered the signature request with success false,
\* and x402Fetch ended with that error after its single fetch.
C19_Witness ==
    /\ x402.signerCalls = 1
    /\ calls[x402.signCall].state = "err"
    /\ calls[x402.signCall].answer.given
    /\ x402.pc = "done"
    /\ x402.outcome.value = calls[x402.signCall].value
    /\ Len(x402.fetches) = 1

\* The headers the caller supplied for the original request, as name/value
\* pairs: those of init when it has a headers member (they replace the ones a
\* Request carries), else those the Request carries.
C20_CallerPairs ==
    IF x402.init.headers # Undefined THEN x402.init.headers.v ELSE x402.input.headers

C20_IsProofName(name) == toLowerCase(name) = toLowerCase(<<"P", "A", "Y", "M", "E", "N", "T", "-", "S", "I", "G", "N", "A", "T", "U", "R", "E">>)

\* Request i carries every caller-supplied header, but the proof header, with
\* its original value, and no other header but the proof header.
C20_CarriesCallerHeaders(i) ==
    /\ \A k \in DOMAIN C20_CallerPairs :
        ~C20_IsProofName(C20_CallerPairs[k][1]) =>
            /\ toLowerCase(C20_CallerPairs[k][1]) \in DOMAIN x402.fetches[i].headers
            /\ x402.fetches[i].headers[toLowerCase(C20_CallerPairs[k][1])]
                    = C20_CallerPairs[k][2]
    /\ \A name \in DOMAIN x402.fetches[i].headers :
        \/ C20_IsProofName(name)
        \/ \E k \in DOMAIN C20_CallerPairs : toLowerCase(C20_CallerPairs[k][1]) = name

\* C20: the replayed request carries every caller-supplied header of the
\* original request with its original value, except that PAYMENT-SIGNATURE is
\* set to the newly built proof, replacing any value the caller supplied; the
\* first request is issued with the caller's headers unmodified and without a
\* proof header added.  (The code drops the headers a Request input carries.)
C20_HeadersOnFirstAndReplay ==
    /\ Len(x402.fetches) >= 1 =>
        /\ C20_CarriesCallerHeaders(1)
        /\ \A name \in DOMAIN x402.fetches[1].headers :
            C20_IsProofName(name) =>
                \E k \in DOMAIN C20_CallerPairs :
                    /\ C20_IsProofName(C20_CallerPairs[k][1])
                    /\ x402.fetches[1].headers[name] = C20_CallerPairs[k][2]
    /\ Len(x402.fetches) >= 2 =>
        /\ C20_CarriesCallerHeaders(2)
        /\ x402.fetches[2].proof.form = "base64"
        /\ \E name \in DOMAIN x402.fetches[2].headers : C20_IsProofName(name)
        /\ \A name \in DOMAIN x402.fetches[2].headers :
            C20_IsProofName(name) => x402.fetches[2].headers[name] = x402.fetches[2].proof

(***************************************************************************)
(* Properties of the presentation.                                         *)
(***************************************************************************)
\* C21: getVisible() is true exactly when the wallet iframe is on screen,
\* whatever show(), hide(), rpc calls, their settlements and the closeFrame
\* and registrationRequired events have happened.
C21_VisibleIffDisplayed == getVisible <=> IframeDisplayed

(***************************************************************************)
(* Properties of initialize().                                             *)
(***************************************************************************)
\* C22: isInitialized() is false until a handshake has completed and true from
\* then on; the rpcCallback listener is registered on exactly the handles of
\* completed handshakes; a handshake that fails makes its initialize() an
\* Err(ProxyError) and changes neither isInitialized() nor the listeners.
C22_InitializedIffHandshakeCompleted ==
    /\ [](isInitialized <=> \E h \in DOMAIN handshakes : handshakes[h] = "complete")
    /\ [](listeners = {h \in DOMAIN handshakes : handshakes[h] = "complete"})
    /\ [](\A h \in DOMAIN handshakes :
            handshakes[h] = "failed" =>
                /\ InitializeResult(h).kind = "err"
                /\ InitializeResult(h).value.t = "ProxyError"
                /\ h \notin listeners)
    /\ [][isInitialized => isInitialized']_vars
    /\ [][\A h \in DOMAIN handshakes :
            HandshakeFails(h) => (child' = child /\ listeners' = listeners)]_vars

\* C22 witness: the first initialize() failed and left the object
\* uninitialized without a listener.
C22_Witness ==
    /\ handshakes = <<"failed">>
    /\ InitializeResult(1).kind = "err"
    /\ ~isInitialized
    /\ listeners = {}

(***************************************************************************)
(* Properties of the challenge validation.                                 *)
(***************************************************************************)
\* The candidate entries of a challenge document as the specification lists
\* them: the accepted field (one object, or an array flattened), then the
\* paymentRequirements array, falsy entries dropped.
ClaimedCandidates(doc) ==
    LET accepted == Get(doc, "accepted")
        requirements == Get(doc, "paymentRequirements")
    IN  FilterTruthy(
            (CASE accepted.t = "array" -> accepted.v
               [] accepted.t \in {"undefined", "null"} -> <<>>
               [] OTHER -> <<accepted>>)
            \o (IF requirements.t = "array" THEN requirements.v ELSE <<>>))

\* The entry's scheme equals "exact" ignoring case.
ClaimedIsExact(entry) ==
    /\ Get(entry, "scheme").t = "string"
    /\ toLowerCase(Get(entry, "scheme").v) = <<"e", "x", "a", "c", "t">>

\* The candidates whose scheme is exact, in order.
ClaimedExactEntries(doc) == SelectSeq(ClaimedCandidates(doc), ClaimedIsExact)

\* The entry's network matches ^eip155:<decimal digits>$.
ClaimedNetworkMatches(entry) ==
    /\ Get(entry, "network").t = "string"
    /\ \E k \in 1..Len(Get(entry, "network").v) :
        /\ SubSeq(Get(entry, "network").v, 1, k) = <<"e", "i", "p", "1", "5", "5", ":">>
        /\ k < Len(Get(entry, "network").v)
        /\ IsDigits(SubSeq(Get(entry, "network").v, k + 1, Len(Get(entry, "network").v)))

\* The entry's transfer method, under either field name, is absent or
\* "eip3009" ignoring case.
ClaimedMethodAccepted(entry) ==
    LET extra == Get(entry, "extra")
        camel == Get(extra, "assetTransferMethod")
        snake == Get(extra, "asset_transfer_method")
        method == IF camel.t \in {"undefined", "null"} THEN snake ELSE camel
    IN  \/ ~Truthy(method)
        \/ /\ method.t = "string"
           /\ toLowerCase(method.v) = <<"e", "i", "p", "3", "0", "0", "9">>

\* The earliest step of the validation order that a 402 response's header
\* fails, or "sign" when it passes all seven.
C23_EarliestFailingStep(header) ==
    IF header.form \in {"absent", "empty"} THEN "missing-header"
    ELSE IF IsThrown(x402ParseJsonOrBase64Json(header)) THEN "parse-failed"
    ELSE LET exacts == ClaimedExactEntries(x402ParseJsonOrBase64Json(header))
         IN  IF exacts = <<>> THEN "no-exact-scheme"
             ELSE IF \E field \in {"network", "amount", "asset", "payTo"} :
                        ~Truthy(Get(exacts[1], field))
             THEN "missing-field"
             ELSE IF ~ClaimedNetworkMatches(exacts[1]) THEN "unsupported-network"
             ELSE IF ~(C10_NetworkNames(exacts[1], 8453) /\ C10_AssetIsUsdc(exacts[1]))
             THEN "unsupported-asset"
             ELSE IF ~ClaimedMethodAccepted(exacts[1]) THEN "unsupported-method"
             ELSE "sign"

\* C23: x402Fetch validates a 402 challenge in the order header present,
\* header parses, exact entry exists, required fields present, network
\* matches eip155:<digits>, (chain, asset) allowlisted, transfer method absent
\* or eip3009, and reports the reason of the earliest failing step; when no
\* step fails it asks the signer.
C23_EarliestFailingStepReported ==
    (x402.first # NoResponse /\ x402.first.status = 402) =>
        LET expected == C23_EarliestFailingStep(x402.first.header)
        IN  /\ x402.step = expected
            /\ expected # "sign" =>
                /\ x402.pc = "done"
                /\ x402.outcome = [kind |-> "err", value |-> AjaxError(expected)]
                /\ x402.signerCalls = 0
            /\ expected = "sign" => x402.signerCalls = 1

\* C24: the candidates are the entries of the accepted field followed by those
\* of the paymentRequirements array, falsy ones dropped; the first whose scheme
\* is "exact" ignoring case is selected and it alone is validated: when it is
\* refused the flow fails although a later exact entry would pass, when it
\* passes the signer is asked for its amount and recipient, and when no
\* candidate is exact the flow fails with the unsupported-scheme reason.
C24_FirstExactEntryDecides ==
    (/\ x402.first # NoResponse /\ x402.first.status = 402
     /\ ~HeaderMissing(x402.first.header)
     /\ ~IsThrown(x402ParseJsonOrBase64Json(x402.first.header))) =>
        LET exacts == ClaimedExactEntries(x402ParseJsonOrBase64Json(x402.first.header))
        IN  /\ exacts = <<>> =>
                /\ x402.pc = "done"
                /\ x402.outcome = [kind |-> "err", value |-> AjaxError("no-exact-scheme")]
                /\ x402.signerCalls = 0
            /\ (exacts # <<>> /\ ~C10_EntryValid(exacts[1])) =>
                /\ x402.pc = "done"
                /\ x402.outcome.kind \in {"err", "threw"}
                /\ x402.outcome.value # AjaxError("no-exact-scheme")
                /\ x402.signerCalls = 0
            /\ (exacts # <<>> /\ C10_EntryValid(exacts[1])) =>
                /\ x402.signerCalls = 1
                /\ Get(calls[x402.signCall].params, "amount") = Get(exacts[1], "amount")
                /\ Get(calls[x402.signCall].params, "destinationAddress")
                        = Get(exacts[1], "payTo")

\* The values the selected entry's extra gives for the transfer method, under
\* either field name.
C25_MethodsNamed(entry) ==
    { Get(Get(entry, "extra"), name) :
        name \in {"assetTransferMethod", "asset_transfer_method"} }
    \ {Undefined, Null}

\* A value that is "eip3009" ignoring case.
C25_IsEip3009(method) ==
    /\ method.t = "string"
    /\ toLowerCase(method.v) = <<"e", "i", "p", "3", "0", "0", "9">>

\* C25: when the selected entry's extra names a transfer method under either
\* field name and that value is not "eip3009" ignoring case, x402Fetch fails
\* with the unsupported-method reason and does not ask the signer, also when
\* both field names are present with different values.  (The entry is one that
\* passes the checks made before the method's.)
C25_OtherMethodRefused ==
    (/\ x402.first # NoResponse /\ x402.first.status = 402
     /\ ~HeaderMissing(x402.first.header)
     /\ ~IsThrown(x402ParseJsonOrBase64Json(x402.first.header))
     /\ ClaimedExactEntries(x402ParseJsonOrBase64Json(x402.first.header)) # <<>>) =>
        LET exact == ClaimedExactEntries(x402ParseJsonOrBase64Json(x402.first.header))[1]
        IN  (/\ \A field \in {"network", "amount", "asset", "payTo"} :
                    Truthy(Get(exact, field))
             /\ C10_NetworkNames(exact, 8453)
             /\ C10_AssetIsUsdc(exact)
             /\ \E method \in C25_MethodsNamed(exact) : ~C25_IsEip3009(method)) =>
                /\ x402.pc = "done"
                /\ x402.outcome = [kind |-> "err", value |-> AjaxError("unsupported-method")]
                /\ x402.signerCalls = 0

\* The signature request x402Fetch made, and the entry it was made for.
C26_Request == calls[x402.signCall].params
C26_Entry == ClaimedExactEntries(x402ParseJsonOrBase64Json(x402.first.header))[1]

\* C26: the signature request has validAfter = now and validUntil = now +
\* maxTimeoutSeconds, now being the clock reading in whole seconds and
\* maxTimeoutSeconds the entry's value when it is a number and 60 otherwise;
\* and validAfter <= validUntil.
C26_ValidityWindow ==
    x402.signerCalls = 1 =>
        /\ \E now \in 0..10 :
            /\ now * 1000 <= x402.nowMs /\ x402.nowMs < (now + 1) * 1000
            /\ Get(C26_Request, "validAfter") = Num(now)
            /\ Get(C26_Request, "validUntil") =
                    Num(now + (IF Get(C26_Entry, "maxTimeoutSeconds").t = "number"
                               THEN Get(C26_Entry, "maxTimeoutSeconds").v
                               ELSE 60))
        /\ Get(C26_Request, "validAfter").v <= Get(C26_Request, "validUntil").v

(***************************************************************************)
(* Properties of the replayed request.                                     *)
(***************************************************************************)
\* The payload the replay carries: the PAYMENT-SIGNATURE header decoded.
C27_Payload == x402ParseJsonOrBase64Json(x402.fetches[2].proof)

\* The parsed challenge, and the value the signer's call resolved with.
C27_Challenge == x402ParseJsonOrBase64Json(x402.first.header)
C27_Signed == calls[x402.signCall].value

ClaimedAttempts(text) ==
    IF text.form = "json" /\ text.doc.t \in {"object", "array"}
    THEN [ok |-> TRUE, doc |-> text.doc]
    ELSE IF text.form = "base64" THEN [ok |-> TRUE, doc |-> text.doc]
    ELSE [ok |-> FALSE, doc |-> Undefined]

\* The claimed parser: the two attempts on the trimmed header, and when both
\* fail the same two on the header with its surrounding quotes stripped.
ClaimedParse(header) ==
    IF ClaimedAttempts(Trim(header)).ok THEN ClaimedAttempts(Trim(header))
    ELSE ClaimedAttempts(StripQuotes(Trim(header)))

\* C28: the parser returns the JSON of the trimmed header when that is an
\* object or array, otherwise the JSON its base64 decoding gives, otherwise
\* the result of the same two attempts on the header without its surrounding
\* double quotes; when no attempt succeeds x402Fetch fails with an AjaxError,
\* the signer is not invoked and no second fetch is made.
C28_ParserAttemptsInOrder ==
    (/\ x402.first # NoResponse /\ x402.first.status = 402
     /\ ~HeaderMissing(x402.first.header)) =>
        LET claimed == ClaimedParse(x402.first.header)
        IN  /\ claimed.ok =>
                /\ x402ParseJsonOrBase64Json(x402.first.header) = claimed.doc
                /\ x402.step # "parse-failed"
            /\ ~claimed.ok =>
                /\ IsThrown(x402ParseJsonOrBase64Json(x402.first.header))
                /\ x402.pc = "done"
                /\ x402.outcome = [kind |-> "err", value |-> AjaxError("parse-failed")]
                /\ x402.signerCalls = 0
                /\ Len(x402.fetches) = 1

(***************************************************************************)
(* Properties of the pending table.                                        *)
(***************************************************************************)
\* C29: rpcCall registers the pending entry of a nonce before it hands the
\* request carrying that nonce to the channel: whenever a request has been
\* dispatched the table holds its callbackNonce, mapped to the call that made
\* the request, and a response delivered for a nonce the table holds is never
\* dropped as unknown.
C29_RegisteredBeforeDispatch ==
    /\ [][Len(sent') > Len(sent) =>
            LET request == sent'[Len(sent')]
            IN  /\ request.callbackNonce \in DOMAIN rpcCallbacks'
                /\ rpcCallbacks'[request.callbackNonce] = Len(calls')
                /\ calls'[Len(calls')].nonce = request.callbackNonce
                /\ calls'[Len(calls')].state = "pending"]_vars
    /\ [][\A response \in Responses :
            (/\ response.callbackNonce \in DOMAIN rpcCallbacks
             /\ DeliverRpcCallback(response)) =>
                /\ lastDelivery'.callbackNonce = response.callbackNonce
                /\ lastDelivery'.outcome # "dropped"]_vars

\* C29 witness: the response to the only request dispatched was delivered and
\* reached the closure registered for its nonce.
C29_Witness ==
    /\ Len(sent) = 1 /\ Len(calls) = 1 /\ rpcNonce = 1
    /\ lastDelivery = [callbackNonce |-> sent[1].callbackNonce, outcome |-> "called"]
    /\ calls[1].state = "ok"
    /\ calls[1].nonce = sent[1].callbackNonce

\* C30: every response that matches a pending entry settles its caller: once
\* the entry of a call's nonce has been removed from the table the call's
\* result is Ok or Err, also when the response's result field could not be
\* decoded, and the call's restore callback has run.
C30_MatchedResponseSettles ==
    \A id \in DOMAIN calls :
        (calls[id].nonce # NoNonce /\ calls[id].nonce \notin DOMAIN rpcCallbacks) =>
            /\ calls[id].state \in {"ok", "err"}
            /\ calls[id].restored = 1

(***************************************************************************)
(* Properties of a call's lifetime.                                        *)
(***************************************************************************)
\* Call id was dispatched: a request carrying its nonce was handed to the channel.
Dispatched(id) ==
    /\ id \in DOMAIN calls
    /\ \E s \in DOMAIN sent : sent[s].callbackNonce = calls[id].nonce

\* C31: under fair delivery a dispatched call eventually settles once its
\* matching response is delivered; a dispatched call no response has been
\* delivered for is pending, keeps its entry and has not run restore (nothing
\* but a delivery for its nonce removes an entry), whatever happens to the
\* other calls.
C31_SettlesIffDelivered ==
    /\ \A id \in 1..MaxCalls :
            Dispatched(id) ~> (Dispatched(id) /\ calls[id].state \in {"ok", "err"})
    /\ [](\A id \in DOMAIN calls :
            (Dispatched(id) /\ calls[id].nonce \in DOMAIN rpcCallbacks) =>
                /\ calls[id].state = "pending"
                /\ calls[id].restored = 0)
    /\ [][\A n \in DOMAIN rpcCallbacks :
            n \notin DOMAIN rpcCallbacks' => lastDelivery'.callbackNonce = n]_vars

(***************************************************************************)
(* Independence of correlation from requireInteraction.                    *)
(***************************************************************************)
\* What correlation consists of: the counter, the pending table, the requests
\* dispatched, and each caller's nonce and result.
Correlation ==
    [rpcNonce |-> rpcNonce,
     rpcCallbacks |-> rpcCallbacks,
     sent |-> sent,
     results |-> [id \in DOMAIN calls |->
                    [nonce |-> calls[id].nonce, state |-> calls[id].state,
                     value |-> calls[id].value]]]

\* The correlation state after rpcCall(eventName, params, -) when it was c.
CorrelationAfterCall(c, eventName, params, dispatchThrows) ==
    LET id == Len(c.results) + 1
    IN  IF child = NullChild
        THEN [c EXCEPT !.results = Append(@,
                [nonce |-> NoNonce, state |-> "err", value |-> NotInitializedError])]
        ELSE [rpcNonce |-> c.rpcNonce + 1,
              rpcCallbacks |-> SetCallback(c.rpcCallbacks, c.rpcNonce, id),
              sent |-> IF dispatchThrows THEN c.sent
                       ELSE Append(c.sent, [eventName |-> eventName,
                                            callbackNonce |-> c.rpcNonce,
                                            params |-> params, child |-> child]),
              results |-> Append(c.results,
                IF dispatchThrows
                THEN [nonce |-> c.rpcNonce, state |-> "err",
                      value |-> ProxyErrorFrom(DispatchFailure)]
                ELSE [nonce |-> c.rpcNonce, state |-> "pending", value |-> Undefined])]

\* The correlation state after the listener handled a response when it was c.
CorrelationAfterDelivery(c, response) ==
    IF response.callbackNonce \notin DOMAIN c.rpcCallbacks THEN c
    ELSE LET id == c.rpcCallbacks[response.callbackNonce]
             effect == CallbackEffect(response)
             removed == [c EXCEPT !.rpcCallbacks =
                            DeleteCallback(@, response.callbackNonce)]
         IN  IF effect.kind = "threw" \/ c.results[id].state # "pending" THEN removed
             ELSE [removed EXCEPT !.results[id] =
                    [nonce |-> c.results[id].nonce, state |-> effect.kind,
                     value |-> IF effect.kind = "ok" THEN effect.value
                               ELSE ProxyErrorFrom(effect.value)]]

\* C32: requireInteraction does not change correlation.  The nonce allocated,
\* the envelope dispatched, the keys of the pending table and every caller's
\* result after a step are determined by what they were before the step and
\* by the step's call or response without the requireInteraction argument, so
\* two runs given the same calls and deliveries agree on them at every step.
C32_InteractionFlagIrrelevant ==
    /\ [][\A m \in DisplayMethods, requireInteraction \in BOOLEAN, dispatchThrows \in BOOLEAN :
            RpcCallWith(m, requireInteraction, dispatchThrows) =>
                Correlation' = CorrelationAfterCall(Correlation, m,
                                    Num(Len(calls) + 1), dispatchThrows)]_vars
    /\ [][\A response \in Responses :
            DeliverRpcCallback(response) =>
                Correlation' = CorrelationAfterDelivery(Correlation, response)]_vars

\* C32 witness: two calls of the same method, the first requiring
\* interaction and the second not, were dispatched and settled with the same
\* value.
C32_Witness ==
    /\ Len(calls) = 2 /\ Len(sent) = 2
    /\ calls[1].eventName = calls[2].eventName
    /\ calls[1].requireInteraction /\ ~calls[2].requireInteraction
    /\ calls[1].state = "ok" /\ calls[2].state = "ok"
    /\ calls[1].value = calls[2].value
    /\ calls[1].value = SignedAuthorization

(***************************************************************************)
(* Properties of the presentation around rpc calls.                        *)
(***************************************************************************)
\* The styles of container, backdrop and frames as they are before any call
\* (show() and hide() are not called in Spec).
StylesOf(d) == [container |-> d.container, backdrop |-> d.backdrop, frames |-> d.frames]

\* C33: once every rpc call that was started has settled, container,
\* backdrop and iframe have the presentation they had before the first of
\* the calls started, whatever the order in which overlapping calls started
\* and settled and whether they succeeded or failed.
C33_PresentationRestoredWhenIdle ==
    (\A id \in DOMAIN calls : calls[id].state \in {"ok", "err"}) =>
        StylesOf(display) = StylesOf(DisplayInit)

\* C34: the keys of the pending table are exactly the nonces of the calls
\* that were dispatched and whose result is not settled yet; a call whose
\* encoding or dispatch raised has no entry.
C34_KeysAreUnsettledDispatchedNonces ==
    DOMAIN rpcCallbacks =
        {calls[id].nonce : id \in {c \in DOMAIN calls :
                                    Dispatched(c) /\ calls[c].state = "pending"}}

(***************************************************************************)
(* Properties of the listener under undecodable messages.                  *)
(***************************************************************************)
\* C35: an rpcCallback message whose text is not a decodable response
\* envelope settles no caller and changes neither the pending table nor the
\* nonce counter, and the listener stays registered: a well-formed response
\* that is delivered next for a call still pending settles that call.
C35_UndecodableMessageIgnored ==
    /\ [][\A data \in UndecodableMessages :
            DeliverUndecodable(data) =>
                /\ calls' = calls
                /\ rpcCallbacks' = rpcCallbacks
                /\ rpcNonce' = rpcNonce
                /\ listeners' = listeners]_vars
    /\ [][\A response \in Responses :
            (/\ lastDelivery.outcome \in {"raised", "rejected"}
             /\ response.callbackNonce \in DOMAIN rpcCallbacks
             /\ ~IsThrown(deserializeUnsafe(response.result))
             /\ DeliverRpcCallback(response)) =>
                LET id == rpcCallbacks[response.callbackNonce]
                IN  calls[id].state = "pending" =>
                        calls'[id].state = IF response.success THEN "ok" ELSE "err"]_vars

\* C35 witness: a message that is not JSON arrived while a call was pending,
\* and the call is still outstanding with its entry.
C35_Witness ==
    /\ lastDelivery = [callbackNonce |-> NoNonce, outcome |-> "raised"]
    /\ Len(calls) = 2
    /\ calls[1].state = "ok"
    /\ Outstanding(2)
    /\ rpcNonce = 2

(***************************************************************************)
(* Properties of WalletProxy.                                              *)
(***************************************************************************)
\* C36: WalletProxy.rpcCall runs the restore of its prepare step exactly once
\* after the call settles, on the failure path as on the success path; while
\* no call is pending the iframe is not left one pixel wide and transparent.
C36_ProxyRestoresOnFailure ==
    /\ \A id \in DOMAIN calls :
            (calls[id].nonce # NoNonce /\ calls[id].state \in {"ok", "err"}) =>
                calls[id].restored = 1
    /\ (/\ child # NullChild
        /\ \A id \in DOMAIN calls : calls[id].state \in {"ok", "err"}) =>
            display.frames[child].width # "1px"

(***************************************************************************)
(* Properties of show() and hide().                                        *)
(***************************************************************************)
\* C37: show() and hide() are a toggle that does not stack.  In every state,
\* show() twice leaves the styles and the stored restore that show() once
\* leaves; where no show() is in effect, hide() after one, two or three
\* show() gives back the styles there were and no stored restore, and hide()
\* alone changes nothing when the frame does not count as visible; getVisible()
\* is true after show() and false after hide(), which clears the stored
\* restore.
C37_ShowHideToggle ==
    /\ [](ShowEffect(ShowEffect(display)) = ShowEffect(display))
    /\ [](display.displayRestore = NoRestore =>
            /\ HideEffect(ShowEffect(display)) = display
            /\ HideEffect(ShowEffect(ShowEffect(display))) = display
            /\ HideEffect(ShowEffect(ShowEffect(ShowEffect(display)))) = display)
    /\ []((display.displayRestore = NoRestore /\ ~getVisible) =>
            HideEffect(display) = display)
    /\ [][Show => getVisible']_vars
    /\ [][Hide => (~getVisible' /\ display'.displayRestore = NoRestore)]_vars

(***************************************************************************)
(* Properties of the closeFrame and registrationRequired listeners.        *)
(***************************************************************************)
\* The wallet iframe would be on screen under the styles d.
IframeDisplayedIn(d) ==
    /\ child # NullChild
    /\ Rendered(d.container)
    /\ Rendered(d.frames[child])
    /\ d.frames[child].width # "1px"
    /\ d.frames[child].opacity # "0"

\* The call with this id required interaction and has not settled.
PendingInteractive(id) ==
    /\ id \in 1..Len(calls)
    /\ calls[id].state = "pending"
    /\ calls[id].requireInteraction

\* C38: a closeFrame or registrationRequired event hides the wallet in every
\* state: after the listener ran getVisible() is false and the iframe is not
\* on screen; the restore of an interactive call that was pending when the
\* event arrived does not put the iframe on screen again, and getVisible() is
\* false once such a call has settled.
C38_EventHidesWallet ==
    /\ [][(CloseFrame \/ \E urlIsString \in BOOLEAN : RegistrationRequired(urlIsString))
            => (~getVisible' /\ ~IframeDisplayed')]_vars
    /\ [](listeners # {} =>
            \A id \in 1..MaxCalls :
                PendingInteractive(id) =>
                    ~IframeDisplayedIn(RunRestore(calls[id].restore, HideEffect(display))))
    /\ [][\A id \in 1..MaxCalls :
            (PendingInteractive(id) /\ calls'[id].state # "pending") => ~getVisible']_vars

(***************************************************************************)
(* Properties of WalletProxy.displayPrivateKey.                            *)
(***************************************************************************)
\* C39: for every displayPrivateKey on an initialized proxy, restore and
\* onClose have each run at most once, and they run only in a step that
\* delivers a PrivateKeyDisplayClosed event, whatever the number of events;
\* on a proxy that is not initialized the result is Err(ProxyError), onClose
\* never runs and the call hands nothing to the channel.
C39_CloseHandledOnce ==
    /\ [](\A k \in DOMAIN keyDisplays :
            /\ keyDisplays[k].restored <= 1
            /\ keyDisplays[k].closed <= 1
            /\ (keyDisplays[k].restored > 0 \/ keyDisplays[k].closed > 0)
                    => keyDisplays[k].notified
            /\ keyDisplays[k].child = NullChild =>
                    /\ keyDisplays[k].result.kind = "err"
                    /\ keyDisplays[k].result.value.t = "ProxyError"
                    /\ keyDisplays[k].restored = 0
                    /\ keyDisplays[k].closed = 0)
    /\ [][\A k \in DOMAIN keyDisplays :
            (keyDisplays'[k].restored # keyDisplays[k].restored
                \/ keyDisplays'[k].closed # keyDisplays[k].closed)
            => \E c \in DOMAIN handshakes, keepsAll \in BOOLEAN :
                    PrivateKeyDisplayClosed(c, keepsAll)]_vars
    /\ [][(Len(keyDisplays') = Len(keyDisplays) + 1
            /\ keyDisplays'[Len(keyDisplays')].child = NullChild)
            => (sent' = sent /\ display' = display)]_vars

\* One displayPrivateKey failed on the proxy before its handshake, a later one
\* was closed: its handler was notified, restore and onClose have run.
C39_Witness ==
    /\ Len(keyDisplays) = 2
    /\ keyDisplays[1].child = NullChild
    /\ keyDisplays[1].result.kind = "err"
    /\ keyDisplays[2].child # NullChild
    /\ keyDisplays[2].hasClosed
    /\ keyDisplays[2].restored = 1
    /\ keyDisplays[2].closed = 1

====
